---- MODULE Spec2Model ----
(***************************************************************************)
(* A model of the setlist application "tabs": the section-aware page-break *)
(* planner (addParagraphBreaks, three variants), the chord transposition   *)
(* and realignment transform (transposeSong) and the setlist of songs with *)
(* its React effects.  Text is modelled as sequences of one-character      *)
(* strings, so that trimming, splitting and the regular-expression passes  *)
(* are computed character by character as the code computes them.          *)
(***************************************************************************)
EXTENDS Integers, Sequences, FiniteSets, TLC

VARIABLES
    \* ---- page-break planner (addParagraphBreaks) ----
    lines,              \* the argument `lines`
    pageHeight,         \* the argument `pageHeight`
    margin,             \* the argument `margin`
    lineHeight,         \* the argument `lineHeight`
    startY,             \* the argument `startY`
    variant,            \* which exporter's addParagraphBreaks runs
    pageWidth,          \* the width of the page the PDF renderer draws on
    autoLinebreak,      \* the argument `autoLinebreak` of processChordContent
    drawn,              \* the characters drawn: line, page and y of each
    ppc,                \* position in addParagraphBreaks
    sections,           \* the local `sections`
    sectionIndex,       \* the loop variable `sectionIndex` (1-based here)
    processedLines,     \* the local `processedLines`
    currentPageLines,   \* the local `currentPageLines`
    currentPageNumber,  \* the local `currentPageNumber`
    \* ---- transposeSong as a function ----
    chords,             \* the argument `chords`
    transposeStep,      \* the argument `transposeStep`
    tpc,                \* position in transposeSong
    transChords,        \* the local `transChords`
    regex,              \* the local `regex`
    processedText,      \* the returned string
    failing,            \* the chord engine calls that throw: <<i, call>> pairs
    thrown,             \* an exception left transposeSong
    \* ---- the setlist of the ChordTransposer component ----
    songs,              \* the state `songs`
    editingSongId,      \* the state `editingSongId` (0 for null)
    pastedTabText,      \* the state `pastedTabText`
    renderedDeps,       \* the effect dependencies of the last committed render
    pendingEffects,     \* the effects the last commit scheduled, not yet run
    nextId,             \* the next unused song id (the clock behind Date.now())
    userEvents,         \* the number of user events handled so far
    \* ---- the chord line functions of the paste import ----
    importLine,         \* the argument `line`
    ipc,                \* which function is applied next
    tokenTests,         \* isChordToken of each token of the line, in order
    likelyChordLine,    \* the return of isLikelyChordLine
    chordified,         \* the return of chordifyLine
    \* ---- the public tabs API ----
    env,                \* process.env.TABS_DELETE_PASSWORD ("" when unset)
    tabs,               \* the stored tabs, newest first
    request,            \* the request handled last
    status,             \* the status of the response to it (0: none yet)
    inserts,            \* the POST requests on the file store, in order of arrival
    \* ---- the PDF preview ----
    previewVersion,     \* counts the changes of previewSongs, font and settings
    previewEmpty,       \* previewSongs.length === 0
    inFlight,           \* the generatePDF calls not yet settled, by version
    pdfUrl,             \* the state `pdfUrl`: 0 for null, else the version shown
    fonts,              \* the fetchFont calls of loadFonts, by URL
    onLine              \* navigator.onLine

pageVars == <<lines, pageHeight, margin, lineHeight, startY, variant, ppc,
              sections, sectionIndex, processedLines, currentPageLines,
              currentPageNumber, pageWidth, autoLinebreak, drawn>>

transVars == <<chords, transposeStep, tpc, transChords, regex, processedText,
               failing, thrown>>

setVars == <<songs, editingSongId, pastedTabText, renderedDeps, pendingEffects,
             nextId, userEvents>>

importVars == <<importLine, ipc, tokenTests, likelyChordLine, chordified>>

serverVars == <<env, tabs, request, status, inserts>>

pdfVars == <<previewVersion, previewEmpty, inFlight, pdfUrl, fonts, onLine>>

vars == <<pageVars, transVars, setVars, importVars, serverVars, pdfVars>>

(***************************************************************************)
(* Bounds of the model.                                                    *)
(***************************************************************************)
MaxLines == 7
MaxSongs == 2
MaxEvents == 4
MaxFragments == 3
MaxOctaveFragments == 2
MaxTokens == 2
MaxTabs == 2
PublishEvents == 3
MaxPreviews == 4
MaxDrawnLines == 5
MaxInserts == 3

(***************************************************************************)
(* Text helpers: JavaScript string operations on character sequences.      *)
(***************************************************************************)
OPEN_CH == <<"[", "c", "h", "]">>
CLOSE_CH == <<"[", "/", "c", "h", "]">>
PAGE_BREAK == <<"_", "_", "P", "A", "G", "E", "_", "B", "R", "E", "A", "K", "_", "_">>

\* \s of a JavaScript regular expression, and what String.prototype.trim strips
IsWhitespace(c) == c \in {" ", "\t", "\n", "\r", "\f"}

RECURSIVE TrimStart(_)
TrimStart(s) ==
    IF s # <<>> /\ IsWhitespace(Head(s)) THEN TrimStart(Tail(s)) ELSE s

RECURSIVE TrimEnd(_)
TrimEnd(s) ==
    IF s # <<>> /\ IsWhitespace(s[Len(s)])
    THEN TrimEnd(SubSeq(s, 1, Len(s) - 1))
    ELSE s

Trim(s) == TrimEnd(TrimStart(s))

\* whether pattern p occurs in s at position i (1-based)
MatchAt(s, i, p) ==
    /\ i >= 1
    /\ i + Len(p) - 1 <= Len(s)
    /\ \A k \in 1..Len(p) : s[i + k - 1] = p[k]

StartsWith(s, p) == MatchAt(s, 1, p)
EndsWith(s, p) == Len(s) >= Len(p) /\ MatchAt(s, Len(s) - Len(p) + 1, p)
Includes(s, p) == \E i \in 1..(Len(s) + 1) : MatchAt(s, i, p)

\* Math.floor(a / b) for b > 0
FloorDiv(a, b) == a \div b

(***************************************************************************)
(* addParagraphBreaks: page geometry.                                      *)
(***************************************************************************)
usableHeight == pageHeight - margin * 2
maxLinesPerPage == FloorDiv(usableHeight, lineHeight)
\* firstPageUsedLines is Math.ceil((startY - margin) / lineHeight)
firstPageAvailableLines ==
    LET firstPageUsedLines == -((-(startY - margin)) \div lineHeight)
    IN  maxLinesPerPage - firstPageUsedLines

isSectionHeader(line) ==
    LET trimmed == Trim(line)
    IN  /\ StartsWith(trimmed, <<"[">>)
        /\ EndsWith(trimmed, <<"]">>)
        /\ Len(trimmed) > 2
        /\ ~Includes(trimmed, OPEN_CH)

isEmptyLine(line) == Trim(line) = <<>>

(***************************************************************************)
(* addParagraphBreaks: the segmentation loop.  SplitFrom(ls, i, secs, cur) *)
(* is the state of the loop before iteration i (1-based) run to its end,   *)
(* followed by the flush of the last section.                              *)
(***************************************************************************)
RECURSIVE SplitFrom(_, _, _, _)
SplitFrom(ls, i, secs, cur) ==
    IF i > Len(ls)
    THEN IF Len(cur) > 0 THEN Append(secs, cur) ELSE secs
    ELSE
        LET line == ls[i]
            isHeader == isSectionHeader(line)
            isEmpty == isEmptyLine(line)
            nextIsHeader == i < Len(ls) /\ isSectionHeader(ls[i + 1])
        IN  IF isHeader /\ Len(cur) > 0
            THEN SplitFrom(ls, i + 1, Append(secs, cur), <<line>>)
            ELSE IF isEmpty /\ nextIsHeader /\ Len(cur) > 0
            THEN SplitFrom(ls, i + 1, Append(secs, Append(cur, line)), <<>>)
            ELSE IF isEmpty /\ Len(cur) > 0 /\ i > 1 /\ ~isEmptyLine(ls[i - 1])
            THEN IF i = Len(ls) \/ (i < Len(ls) /\ isEmptyLine(ls[i + 1]))
                 THEN SplitFrom(ls, i + 1, Append(secs, Append(cur, line)), <<>>)
                 ELSE SplitFrom(ls, i + 1, secs, Append(cur, line))
            ELSE IF ~isEmpty \/ Len(cur) > 0
            THEN SplitFrom(ls, i + 1, secs, Append(cur, line))
            ELSE SplitFrom(ls, i + 1, secs, cur)

SplitSections(ls) == SplitFrom(ls, 1, <<>>, <<>>)

(***************************************************************************)
(* addParagraphBreaks: the placement loop, one section per step.           *)
(***************************************************************************)
minimumLinesToJustifyBreak == 3

\* mutant: the header lines already on the first page are forgotten
availableLines_IgnoringHeader(pageLines, pageNumber) ==
    maxLinesPerPage - pageLines

availableLinesOnCurrentPage(pageLines, pageNumber) ==
    IF pageNumber = 1
    THEN firstPageAvailableLines - pageLines
    ELSE maxLinesPerPage - pageLines

\* mutant: the check that the section fits on a fresh page is missing
BreakBeforePdf_NoFitCheck(sectionLines, pageLines, pageNumber) ==
    /\ sectionLines > availableLinesOnCurrentPage(pageLines, pageNumber)
    /\ pageLines > 0

\* the break condition of the current PDF exporter: no minimum-lines guard
BreakBeforePdf(sectionLines, pageLines, pageNumber) ==
    LET sectionWouldBeSplit ==
            sectionLines > availableLinesOnCurrentPage(pageLines, pageNumber)
        sectionFitsOnNewPage == sectionLines <= maxLinesPerPage
    IN  sectionWouldBeSplit /\ pageLines > 0 /\ sectionFitsOnNewPage

\* mutant: a break is placed on a page that holds no line yet
BreakBeforeDocx_OnEmptyPage(sectionLines, pageLines, pageNumber) ==
    /\ sectionLines > availableLinesOnCurrentPage(pageLines, pageNumber)
    /\ sectionLines <= maxLinesPerPage
    /\ sectionLines >= minimumLinesToJustifyBreak

\* the break condition of the DOCX exporter
BreakBeforeDocx(sectionLines, pageLines, pageNumber) ==
    LET sectionWouldBeSplit ==
            sectionLines > availableLinesOnCurrentPage(pageLines, pageNumber)
        sectionFitsOnNewPage == sectionLines <= maxLinesPerPage
        wouldSaveEnoughLines == sectionLines >= minimumLinesToJustifyBreak
    IN  /\ sectionWouldBeSplit
        /\ pageLines > 0
        /\ sectionFitsOnNewPage
        /\ wouldSaveEnoughLines

\* mutant: the minimum-lines guard is strict
BreakBeforePdfLegacy_StrictMinimum(sectionLines, pageLines, pageNumber) ==
    /\ sectionLines > availableLinesOnCurrentPage(pageLines, pageNumber)
    /\ pageLines > 0
    /\ sectionLines <= maxLinesPerPage
    /\ sectionLines > minimumLinesToJustifyBreak

\* the break condition of the earlier PDF exporter
BreakBeforePdfLegacy(sectionLines, pageLines, pageNumber) ==
    LET sectionWouldBeSplit ==
            sectionLines > availableLinesOnCurrentPage(pageLines, pageNumber)
        sectionFitsOnNewPage == sectionLines <= maxLinesPerPage
        wouldSaveEnoughLines == sectionLines >= minimumLinesToJustifyBreak
    IN  /\ sectionWouldBeSplit
        /\ pageLines > 0
        /\ sectionFitsOnNewPage
        /\ wouldSaveEnoughLines

BreakBefore(v, sectionLines, pageLines, pageNumber) ==
    CASE v = "pdf" -> BreakBeforePdf(sectionLines, pageLines, pageNumber)
      [] v = "docx" -> BreakBeforeDocx(sectionLines, pageLines, pageNumber)
      [] OTHER -> BreakBeforePdfLegacy(sectionLines, pageLines, pageNumber)

\* the inner while loop of the overflow accounting: <<lines, page>>
RECURSIVE RollOver(_, _)
RollOver(pageLines, pageNumber) ==
    IF pageLines >= maxLinesPerPage
    THEN RollOver(pageLines - maxLinesPerPage, pageNumber + 1)
    ELSE <<pageLines, pageNumber>>

\* mutant: the overflow accounting rolls over one page only
AfterSection_OnePage(pageLines, pageNumber) ==
    LET currentPageCapacity ==
            IF pageNumber = 1 THEN firstPageAvailableLines ELSE maxLinesPerPage
    IN  IF pageLines >= currentPageCapacity
        THEN <<pageLines - currentPageCapacity, pageNumber + 1>>
        ELSE <<pageLines, pageNumber>>

\* the overflow accounting after a section was pushed: <<lines, page>>
AfterSection(pageLines, pageNumber) ==
    LET currentPageCapacity ==
            IF pageNumber = 1 THEN firstPageAvailableLines ELSE maxLinesPerPage
    IN  IF pageLines >= currentPageCapacity
        THEN RollOver(pageLines - currentPageCapacity, pageNumber + 1)
        ELSE <<pageLines, pageNumber>>

\* one iteration of the placement loop of variant v, from the loop state st
PlaceStep(v, section, st) ==
    LET sectionLines == Len(section)
        break == BreakBefore(v, sectionLines, st.pageLines, st.pageNumber)
        pageLines0 == IF break THEN 0 ELSE st.pageLines
        pageNumber0 == IF break THEN st.pageNumber + 1 ELSE st.pageNumber
        after == AfterSection(pageLines0 + sectionLines, pageNumber0)
    IN  [out |-> (IF break THEN Append(st.out, PAGE_BREAK) ELSE st.out) \o section,
         pageLines |-> after[1],
         pageNumber |-> after[2]]

RECURSIVE PlaceFrom(_, _, _, _)
PlaceFrom(v, secs, k, st) ==
    IF k > Len(secs) THEN st ELSE PlaceFrom(v, secs, k + 1, PlaceStep(v, secs[k], st))

\* the whole function, as variant v computes it
addParagraphBreaks(v, ls) ==
    PlaceFrom(v, SplitSections(ls), 1,
              [out |-> <<>>, pageLines |-> 0, pageNumber |-> 1]).out

\* the variables of the other components, at rest
TransIdle ==
    /\ chords = <<>>
    /\ transposeStep = 0
    /\ tpc = "idle"
    /\ transChords = <<>>
    /\ regex = <<>>
    /\ processedText = <<>>
    /\ failing = {}
    /\ thrown = FALSE

\* the parts of the state outside the page-break planner, transposeSong and
\* the setlist, while these are examined
ImportIdle ==
    /\ importLine = <<>>
    /\ ipc = "idle"
    /\ tokenTests = <<>>
    /\ likelyChordLine = FALSE
    /\ chordified = <<>>

ServerIdle ==
    /\ env = <<>>
    /\ tabs = <<>>
    /\ request = [method |-> "none"]
    /\ status = 0
    /\ inserts = <<>>

PdfIdle ==
    /\ previewVersion = 0
    /\ previewEmpty = TRUE
    /\ inFlight = {}
    /\ pdfUrl = 0
    /\ fonts = <<>>
    /\ onLine = TRUE

\* the setlist part of the state while a pure function is examined
SetlistIdle ==
    /\ songs = <<>>
    /\ editingSongId = 0
    /\ pastedTabText = <<>>
    /\ renderedDeps = [transpose |-> <<>>, editing |-> <<0, <<>>>>]
    /\ pendingEffects = {}
    /\ nextId = 1
    /\ userEvents = 0

\* a call of addParagraphBreaks, by any of the three variants: up to MaxLines
\* lines (a section header, a blank line, a chord line) and a small page
InitPaginate ==
    /\ TransIdle
    /\ SetlistIdle
    /\ ImportIdle
    /\ ServerIdle
    /\ PdfIdle
    /\ lines \in UNION { [1..n -> { <<"[", "V", "]">>,
                                    <<" ">>,
                                    <<"[", "c", "h", "]", "C", "[", "/", "c", "h", "]">> }]
                       : n \in 0..MaxLines }
    /\ pageHeight \in {9, 10}
    /\ margin = 1
    /\ lineHeight = 2
    /\ startY \in {1, 2, 4, 7}
    /\ variant \in {"pdf", "docx", "pdfLegacy"}
    /\ pageWidth = 12
    /\ autoLinebreak = TRUE
    /\ drawn = <<>>
    /\ ppc = "segment"
    /\ sections = <<>>
    /\ sectionIndex = 1
    /\ processedLines = <<>>
    /\ currentPageLines = 0
    /\ currentPageNumber = 1

\* the segmentation loop and the initialisation of the placement loop
Segment ==
    /\ ppc = "segment"
    /\ autoLinebreak
    /\ sections' = SplitSections(lines)
    /\ sectionIndex' = 1
    /\ processedLines' = <<>>
    /\ currentPageLines' = 0
    /\ currentPageNumber' = 1
    /\ ppc' = "place"
    /\ UNCHANGED <<lines, pageHeight, margin, lineHeight, startY, variant,
                   pageWidth, autoLinebreak, drawn>>
    /\ UNCHANGED transVars
    /\ UNCHANGED setVars
    /\ UNCHANGED <<importVars, serverVars, pdfVars>>

\* one iteration of the placement loop
PlaceSection ==
    /\ ppc = "place"
    /\ sectionIndex <= Len(sections)
    /\ LET st == PlaceStep(variant, sections[sectionIndex],
                           [out |-> processedLines,
                            pageLines |-> currentPageLines,
                            pageNumber |-> currentPageNumber])
       IN  /\ processedLines' = st.out
           /\ currentPageLines' = st.pageLines
           /\ currentPageNumber' = st.pageNumber
    /\ sectionIndex' = sectionIndex + 1
    /\ UNCHANGED <<lines, pageHeight, margin, lineHeight, startY, variant, ppc,
                   sections, pageWidth, autoLinebreak, drawn>>
    /\ UNCHANGED transVars
    /\ UNCHANGED setVars
    /\ UNCHANGED <<importVars, serverVars, pdfVars>>

\* the loop is over: return processedLines
ReturnLines ==
    /\ ppc = "place"
    /\ sectionIndex > Len(sections)
    /\ ppc' = "done"
    /\ UNCHANGED <<lines, pageHeight, margin, lineHeight, startY, variant,
                   sections, sectionIndex, processedLines, currentPageLines,
                   currentPageNumber, pageWidth, autoLinebreak, drawn>>
    /\ UNCHANGED transVars
    /\ UNCHANGED setVars
    /\ UNCHANGED <<importVars, serverVars, pdfVars>>

SpecPaginate == InitPaginate /\ [][Segment \/ PlaceSection \/ ReturnLines]_vars

(***************************************************************************)
(* The PDF renderer: processChordContent draws the lines it gets from      *)
(* addParagraphBreaks (or the lines as they are, without auto-linebreak)   *)
(* character by character.  The font is monospaced: every character is     *)
(* charWidth wide.  A drawn character is recorded with the index of its    *)
(* line, the page it is drawn on and its y.                                *)
(***************************************************************************)
charWidth == 1

\* parseInlineMarkdown(text) for a text that holds no mark of the bold and
\* underline micro-syntax: one plain segment
parseInlineMarkdown(text) ==
    <<[text |-> text, bold |-> FALSE, underline |-> FALSE]>>

\* renderMarkdownTextInline(doc, text, cursor, bounds, forceBold) for the line
\* with index line on page page; st holds the cursor and the characters drawn
renderMarkdownTextInline(text, line, page, st) ==
    LET RECURSIVE DrawChars(_, _, _)
        DrawChars(chars, j, c) ==
            IF j > Len(chars) THEN c
            ELSE IF c.x + charWidth > pageWidth - margin
            THEN DrawChars(chars, j + 1,
                     [x |-> margin + charWidth,
                      y |-> c.y + lineHeight,
                      acc |-> Append(c.acc, [line |-> line, page |-> page,
                                             y |-> c.y + lineHeight])])
            ELSE DrawChars(chars, j + 1,
                     [x |-> c.x + charWidth,
                      y |-> c.y,
                      acc |-> Append(c.acc, [line |-> line, page |-> page,
                                             y |-> c.y])])
        RECURSIVE DrawSegments(_, _, _)
        DrawSegments(markdownSegments, i, c) ==
            IF i > Len(markdownSegments) THEN c
            ELSE DrawSegments(markdownSegments, i + 1,
                              DrawChars(markdownSegments[i].text, 1, c))
    IN  DrawSegments(parseInlineMarkdown(text), 1, st)

\* the loop of processChordContent over the lines out, from cursor.y = startY
\* on page 1: the characters drawn
processChordContent(out) ==
    LET \* the position of the [/ch] that ends a chord segment opened before j
        RECURSIVE ChordClose(_, _)
        ChordClose(s, j) ==
            IF j > Len(s) THEN 0
            ELSE IF MatchAt(s, j, CLOSE_CH) THEN j
            ELSE IF s[j] = "[" THEN 0
            ELSE ChordClose(s, j + 1)
        \* line.split(/(\[ch\][^\[]*\[\/ch\])/g) without the empty segments,
        \* each chord segment as its rawText
        RECURSIVE RawTexts(_, _, _, _)
        RawTexts(s, i, cur, acc) ==
            IF i > Len(s) THEN (IF cur = <<>> THEN acc ELSE Append(acc, cur))
            ELSE IF MatchAt(s, i, OPEN_CH) /\ ChordClose(s, i + Len(OPEN_CH)) # 0
            THEN RawTexts(s, ChordClose(s, i + Len(OPEN_CH)) + Len(CLOSE_CH), <<>>,
                          Append(IF cur = <<>> THEN acc ELSE Append(acc, cur),
                                 SubSeq(s, i + Len(OPEN_CH),
                                        ChordClose(s, i + Len(OPEN_CH)) - 1)))
            ELSE RawTexts(s, i + 1, Append(cur, s[i]), acc)
        RECURSIVE DrawTexts(_, _, _, _, _)
        DrawTexts(texts, j, line, page, c) ==
            IF j > Len(texts) THEN c
            ELSE DrawTexts(texts, j + 1, line, page,
                           renderMarkdownTextInline(texts[j], line, page, c))
        DrawLine(line, i, page, c) ==
            IF Includes(line, OPEN_CH) /\ Includes(line, CLOSE_CH)
            THEN DrawTexts(RawTexts(line, 1, <<>>, <<>>), 1, i, page, c)
            ELSE renderMarkdownTextInline(line, i, page, c)
        NextRow(c) == [c EXCEPT !.x = margin, !.y = c.y + lineHeight]
        NewPage(c) == [c EXCEPT !.x = margin, !.y = margin]
        RECURSIVE DrawFrom(_, _, _)
        DrawFrom(i, page, c) ==
            IF i > Len(out) THEN c.acc
            ELSE IF out[i] = PAGE_BREAK
            THEN DrawFrom(i + 1, page + 1, NewPage(c))
            ELSE IF c.y + lineHeight > pageHeight - margin
            THEN DrawFrom(i + 1, page + 1,
                          NextRow(DrawLine(out[i], i, page + 1, NewPage(c))))
            ELSE DrawFrom(i + 1, page, NextRow(DrawLine(out[i], i, page, c)))
    IN  DrawFrom(1, 1, [x |-> margin, y |-> startY, acc |-> <<>>])

\* a call of processChordContent by the PDF exporter: up to MaxDrawnLines
\* lines, a page that holds two characters in a row or one that holds any line
InitRender ==
    /\ TransIdle
    /\ SetlistIdle
    /\ ImportIdle
    /\ ServerIdle
    /\ PdfIdle
    /\ lines \in UNION { [1..n -> { <<"[", "V", "]">>,
                                    <<" ">>,
                                    <<"[", "c", "h", "]", "C", "[", "/", "c", "h", "]">> }]
                       : n \in 0..MaxDrawnLines }
    /\ pageHeight \in {9, 10}
    /\ margin = 1
    /\ lineHeight = 2
    /\ startY \in {1, 2, 4, 7}
    /\ variant = "pdf"
    /\ pageWidth \in {4, 12}
    /\ autoLinebreak \in BOOLEAN
    /\ drawn = <<>>
    /\ ppc = "segment"
    /\ sections = <<>>
    /\ sectionIndex = 1
    /\ processedLines = <<>>
    /\ currentPageLines = 0
    /\ currentPageNumber = 1

\* the drawing loop, over the planner's result or over the lines as they are
DrawLines ==
    /\ variant = "pdf"
    /\ \/ autoLinebreak /\ ppc = "done"
       \/ ~autoLinebreak /\ ppc = "segment"
    /\ drawn' = processChordContent(IF autoLinebreak THEN processedLines ELSE lines)
    /\ ppc' = "drawn"
    /\ UNCHANGED <<lines, pageHeight, margin, lineHeight, startY, variant,
                   sections, sectionIndex, processedLines, currentPageLines,
                   currentPageNumber, pageWidth, autoLinebreak>>
    /\ UNCHANGED transVars
    /\ UNCHANGED setVars
    /\ UNCHANGED <<importVars, serverVars, pdfVars>>

SpecRender ==
    InitRender /\ [][Segment \/ PlaceSection \/ ReturnLines \/ DrawLines]_vars

(***************************************************************************)
(* Page layout of a planner output, as the claims about pages define it:   *)
(* the first page holds firstPageAvailableLines body lines, later pages    *)
(* hold maxLinesPerPage, and a sentinel starts a new page.                 *)
(***************************************************************************)
IsSentinel(line) == line = PAGE_BREAK

RemoveSentinels(out) == SelectSeq(out, LAMBDA l : ~IsSentinel(l))

PageCapacity(page) ==
    IF page = 1 THEN firstPageAvailableLines ELSE maxLinesPerPage

\* the page of every body line of out, in order (sentinels are on no page)
RECURSIVE LayoutFrom(_, _, _, _, _)
LayoutFrom(out, i, page, row, acc) ==
    IF i > Len(out) THEN acc
    ELSE IF IsSentinel(out[i]) THEN LayoutFrom(out, i + 1, page + 1, 0, acc)
    ELSE IF row >= PageCapacity(page)
         THEN LayoutFrom(out, i + 1, page + 1, 1, Append(acc, page + 1))
         ELSE LayoutFrom(out, i + 1, page, row + 1, Append(acc, page))

BodyPages(out) == LayoutFrom(out, 1, 1, 0, <<>>)

\* the number of lines of the sections before section k
RECURSIVE LinesBefore(_, _)
LinesBefore(secs, k) ==
    IF k <= 1 THEN 0 ELSE LinesBefore(secs, k - 1) + Len(secs[k - 1])

\* the index in out of its n-th body line
RECURSIVE NthBodyIndex(_, _, _)
NthBodyIndex(out, n, i) ==
    IF IsSentinel(out[i]) THEN NthBodyIndex(out, n, i + 1)
    ELSE IF n = 1 THEN i
    ELSE NthBodyIndex(out, n - 1, i + 1)

\* the sections placed so far, and where each starts in processedLines
PlacedSections == 1..(sectionIndex - 1)
SectionStart(k) == NthBodyIndex(processedLines, LinesBefore(sections, k) + 1, 1)
SentinelBefore(k) ==
    SectionStart(k) > 1 /\ IsSentinel(processedLines[SectionStart(k) - 1])

OnOnePage(k) ==
    LET pages == BodyPages(processedLines)
        first == LinesBefore(sections, k) + 1
    IN  \A n \in first..(first + Len(sections[k]) - 1) : pages[n] = pages[first]

KeepTogether(k) ==
    Len(sections[k]) >= 3 /\ Len(sections[k]) <= maxLinesPerPage

(***************************************************************************)
(* C1: removing every sentinel from the result of addParagraphBreaks gives *)
(* back exactly the input line sequence.  The segmentation loop drops a    *)
(* blank line met while no section is open, so this fails.                 *)
(***************************************************************************)
C1_SentinelsRemovedGiveInput ==
    ppc = "done" => RemoveSentinels(processedLines) = lines

(***************************************************************************)
(* C2 as stated: with a first-page capacity of at least 1, every section   *)
(* of at least 3 and at most maxLinesPerPage lines has all its lines on    *)
(* one page.                                                               *)
(***************************************************************************)
C2_Original_EverySectionOnOnePage ==
    (ppc = "done" /\ firstPageAvailableLines >= 1) =>
        \A k \in 1..Len(sections) : KeepTogether(k) => OnOnePage(k)

(***************************************************************************)
(* C2 amended: the same for every such section except a first section with *)
(* more lines than the first page holds (no break is placed on an empty    *)
(* page, so that section overflows from the first page).                   *)
(***************************************************************************)
C2_SectionOnOnePage ==
    (ppc = "done" /\ firstPageAvailableLines >= 1) =>
        \A k \in 1..Len(sections) :
            (KeepTogether(k) /\ (k > 1 \/ Len(sections[k]) <= firstPageAvailableLines))
                => OnOnePage(k)

\* a section that did not fit was moved whole to the next page by a sentinel
C2_Witness ==
    /\ ppc = "done"
    /\ firstPageAvailableLines >= 1
    /\ \E k \in 2..Len(sections) :
        KeepTogether(k) /\ SentinelBefore(k) /\ OnOnePage(k)

(***************************************************************************)
(* C3: in every variant, when a section of at least 3 and at most          *)
(* maxLinesPerPage lines has more lines than remain on the current page    *)
(* and the page already holds a body line, the step that places it emits a *)
(* sentinel immediately before its first line.                             *)
(***************************************************************************)
C3_BreakBeforeSplitSection ==
    [][ (/\ ppc = "place"
         /\ sectionIndex <= Len(sections)
         /\ Len(sections[sectionIndex]) >= 3
         /\ Len(sections[sectionIndex]) <= maxLinesPerPage
         /\ Len(sections[sectionIndex]) >
                PageCapacity(currentPageNumber) - currentPageLines
         /\ currentPageLines > 0)
        => processedLines' =
               Append(processedLines, PAGE_BREAK) \o sections[sectionIndex] ]_vars

\* such a section has been placed behind a sentinel, in the variant named
C3_Witness ==
    /\ variant = "pdfLegacy"
    /\ sectionIndex = 3
    /\ Len(sections[1]) < firstPageAvailableLines
    /\ KeepTogether(2)
    /\ Len(sections[2]) > firstPageAvailableLines - Len(sections[1])
    /\ SentinelBefore(2)

(***************************************************************************)
(* C4: no sentinel stands immediately before a section with more than      *)
(* maxLinesPerPage lines.                                                  *)
(***************************************************************************)
C4_NoBreakBeforeLongSection ==
    \A k \in PlacedSections :
        Len(sections[k]) > maxLinesPerPage => ~SentinelBefore(k)

\* a too-long section was placed on a page that already held lines
C4_Witness ==
    /\ sectionIndex >= 3
    /\ firstPageAvailableLines > Len(sections[1])
    /\ Len(sections[2]) > maxLinesPerPage
    /\ ~SentinelBefore(2)

(***************************************************************************)
(* C5: the PDF exporter's and the DOCX exporter's addParagraphBreaks       *)
(* return the same sequence for the same lines and geometry.  The current  *)
(* PDF exporter has no minimum-lines guard, so this fails.                 *)
(***************************************************************************)
C5_PdfEqualsDocx ==
    (ppc = "done" /\ variant = "pdf") =>
        processedLines = addParagraphBreaks("docx", lines)

(***************************************************************************)
(* The chord name engine (the chord-magic library), by its contract: parse *)
(* fails on text that is no chord, transpose moves the root and the bass   *)
(* note modulo 12, prettyPrint names them from a 12-entry table.  The      *)
(* grammar modelled is  root [#|b] [m|min] [/ bass [#|b]] .                *)
(***************************************************************************)
LetterPitch(c) ==
    CASE c = "A" -> 0 [] c = "B" -> 2 [] c = "C" -> 3 [] c = "D" -> 5
      [] c = "E" -> 7 [] c = "F" -> 8 [] OTHER -> 10

\* a note at position i of s: [ok, pitch, next], next being the position after it
ParseNote(s, i) ==
    IF i > Len(s) \/ s[i] \notin {"A", "B", "C", "D", "E", "F", "G"}
    THEN [ok |-> FALSE, pitch |-> 0, next |-> i]
    ELSE IF i + 1 <= Len(s) /\ s[i + 1] = "#"
    THEN [ok |-> TRUE, pitch |-> (LetterPitch(s[i]) + 1) % 12, next |-> i + 2]
    ELSE IF i + 1 <= Len(s) /\ s[i + 1] = "b"
    THEN [ok |-> TRUE, pitch |-> (LetterPitch(s[i]) + 11) % 12, next |-> i + 2]
    ELSE [ok |-> TRUE, pitch |-> LetterPitch(s[i]), next |-> i + 1]

\* parse(chord, {}): a chord value, or [ok |-> FALSE] where the library throws
parse(chord) ==
    LET root == ParseNote(chord, 1)
        afterQuality ==
            IF MatchAt(chord, root.next, <<"m", "i", "n">>) THEN root.next + 3
            ELSE IF MatchAt(chord, root.next, <<"m">>) THEN root.next + 1
            ELSE root.next
        hasBass == MatchAt(chord, afterQuality, <<"/">>)
        bass == ParseNote(chord, afterQuality + 1)
        end == IF hasBass THEN bass.next ELSE afterQuality
    IN  IF ~root.ok \/ (hasBass /\ ~bass.ok) \/ end # Len(chord) + 1
        THEN [ok |-> FALSE]
        ELSE [ok |-> TRUE,
              root |-> root.pitch,
              quality |-> IF afterQuality > root.next THEN "Minor" ELSE "Major",
              overridingRoot |-> IF hasBass THEN bass.pitch ELSE -1]

\* transpose(parsedChord, step): a new chord value (-1 stands for no bass note)
transpose(chord, step) ==
    [chord EXCEPT !.root = (chord.root + step) % 12,
                  !.overridingRoot =
                      IF chord.overridingRoot = -1 THEN -1
                      ELSE (chord.overridingRoot + step) % 12]

\* prettyPrint(chord, {naming}): naming is indexed from 0 in the code
prettyPrint(chord, naming) ==
    naming[chord.root + 1]
        \o (IF chord.quality = "Minor" THEN <<"m">> ELSE <<>>)
        \o (IF chord.overridingRoot = -1 THEN <<>>
            ELSE <<"/">> \o naming[chord.overridingRoot + 1])

(***************************************************************************)
(* transposeSong (the transpose effect of ChordTransposer).                *)
(***************************************************************************)
\* the states halftoneStyle ("FLATS") and simplify (false) keep their initial
\* values: no control of the page sets them
tones ==
    LET halftoneStyle == "FLATS"
    IN
    IF halftoneStyle = "FLATS"
    THEN << <<"A">>, <<"B", "b">>, <<"B">>, <<"C">>, <<"D", "b">>, <<"D">>,
            <<"E", "b">>, <<"E">>, <<"F">>, <<"G", "b">>, <<"G">>, <<"A", "b">> >>
    ELSE << <<"A">>, <<"A", "#">>, <<"B">>, <<"C">>, <<"C", "#">>, <<"D">>,
            <<"D", "#">>, <<"E">>, <<"F">>, <<"F", "#">>, <<"G">>, <<"G", "#">> >>

\* "x".repeat(n)
RECURSIVE Repeat(_, _)
Repeat(c, n) == IF n <= 0 THEN <<>> ELSE <<c>> \o Repeat(c, n - 1)

\* chords.split(/\[ch\]|\[\/ch\]/g): SplitMarkers(s, i, cur, acc) is the scan
\* from position i with the current piece cur and the pieces acc before it
RECURSIVE SplitMarkers(_, _, _, _)
SplitMarkers(s, i, cur, acc) ==
    IF i > Len(s) THEN Append(acc, cur)
    ELSE IF MatchAt(s, i, OPEN_CH)
    THEN SplitMarkers(s, i + Len(OPEN_CH), <<>>, Append(acc, cur))
    ELSE IF MatchAt(s, i, CLOSE_CH)
    THEN SplitMarkers(s, i + Len(CLOSE_CH), <<>>, Append(acc, cur))
    ELSE SplitMarkers(s, i + 1, Append(cur, s[i]), acc)

\* the simplify branch: delete extended, suspended, added, overridingRoot
Simplified(chord) ==
    LET simplify == FALSE
    IN
    IF simplify THEN [chord EXCEPT !.overridingRoot = -1] ELSE chord

\* mutant: a chord that got shorter is not padded with spaces
TransposeChord_NoPadding(chord, step) ==
    LET parsedChord == parse(chord)
        transChord == Simplified(transpose(parsedChord, step))
        diff == Len(prettyPrint(transChord, tones)) - Len(prettyPrint(parsedChord, tones))
        filler == IF diff >= 0 THEN Repeat("-", diff) ELSE <<>>
    IN  [piece |-> OPEN_CH \o prettyPrint(transChord, tones) \o CLOSE_CH \o filler,
         regex |-> IF diff >= 0 THEN <<filler \o Repeat(" ", diff)>> ELSE <<>>]

\* the filler and the removal pattern for a chord printed diff longer
PaddedChord(prettyTransChord, diff) ==
    LET Abs(n) == IF n < 0 THEN -n ELSE n
    IN
    [piece |-> OPEN_CH \o prettyTransChord \o CLOSE_CH
                 \o (IF diff >= 0 THEN Repeat("-", diff) ELSE Repeat(" ", Abs(diff))),
     regex |-> IF diff >= 0 THEN <<Repeat("-", diff) \o Repeat(" ", diff)>> ELSE <<>>]

\* the try block from the two printed names on
PrintedChord(prettyChord, prettyTransChord) ==
    PaddedChord(prettyTransChord, Len(prettyTransChord) - Len(prettyChord))

\* mutant: an offset beyond an octave is taken as no offset
TransposeParsed_OctaveIgnored(parsedChord, step) ==
    PrintedChord(prettyPrint(parsedChord, tones),
                 prettyPrint(Simplified(transpose(parsedChord,
                     IF step < -12 \/ step > 12 THEN 0 ELSE step)), tones))

\* the try block from the parsed chord on
TransposeParsed(parsedChord, step) ==
    PrintedChord(prettyPrint(parsedChord, tones),
                 prettyPrint(Simplified(transpose(parsedChord, step)), tones))

\* the body of the try block for one chord: [piece, regex]
TransposeChord(chord, step) == TransposeParsed(parse(chord), step)

\* mutant: the first chord that fails to parse ends the loop
RECURSIVE TransposeLoop_AbortOnFailure(_, _, _, _)
TransposeLoop_AbortOnFailure(pieces, i, patterns, step) ==
    IF i >= Len(pieces)
    THEN [transChords |-> pieces, regex |-> patterns, thrown |-> FALSE]
    ELSE
        LET chord == pieces[i + 1]
        IN  IF chord = <<>>
            THEN TransposeLoop_AbortOnFailure(pieces, i + 2, patterns, step)
            ELSE IF ~parse(chord).ok
            THEN [transChords |-> pieces, regex |-> patterns, thrown |-> FALSE]
            ELSE
                LET r == TransposeChord(chord, step)
                IN  TransposeLoop_AbortOnFailure([pieces EXCEPT ![i + 1] = r.piece],
                                                 i + 2, patterns \o r.regex, step)

\* the calls of the chord engine in the try block; <<i, call>> in failing
\* says that this call throws for the piece at index i (i as in the code)
EngineCalls == {"parse", "transpose", "prettyPrint"}

\* mutant: no catch block, a failing call ends transposeSong with its exception
RECURSIVE TransposeLoop_NoCatch(_, _, _, _)
TransposeLoop_NoCatch(pieces, i, patterns, step) ==
    IF i >= Len(pieces)
    THEN [transChords |-> pieces, regex |-> patterns, thrown |-> FALSE]
    ELSE IF pieces[i + 1] = <<>>
    THEN TransposeLoop_NoCatch(pieces, i + 2, patterns, step)
    ELSE IF ~parse(pieces[i + 1]).ok \/ (\E c \in EngineCalls : <<i, c>> \in failing)
    THEN [transChords |-> pieces, regex |-> patterns, thrown |-> TRUE]
    ELSE
        LET r == TransposeChord(pieces[i + 1], step)
        IN  TransposeLoop_NoCatch([pieces EXCEPT ![i + 1] = r.piece],
                                  i + 2, patterns \o r.regex, step)

\* the loop body for a chord that parsed, r being its [piece, regex]
RECURSIVE TransposeLoop(_, _, _, _)
LoopWithChord(pieces, i, patterns, step, r) ==
    TransposeLoop([pieces EXCEPT ![i + 1] = r.piece], i + 2, patterns \o r.regex, step)

\* the for loop over the odd pieces (i is the code's 0-based index); a call
\* that throws is caught, which leaves the piece and the patterns as they are
TransposeLoop(pieces, i, patterns, step) ==
    IF i >= Len(pieces)
    THEN [transChords |-> pieces, regex |-> patterns, thrown |-> FALSE]
    ELSE IF \/ pieces[i + 1] = <<>>
            \/ ~parse(pieces[i + 1]).ok
            \/ \E c \in EngineCalls : <<i, c>> \in failing
    THEN TransposeLoop(pieces, i + 2, patterns, step)
    ELSE LoopWithChord(pieces, i, patterns, step, TransposeChord(pieces[i + 1], step))

\* [...new Set(regex.filter(r => r.length > 1))]
RECURSIVE Distinct(_, _)
Distinct(rs, acc) ==
    IF rs = <<>> THEN acc
    ELSE IF Len(Head(rs)) > 1 /\ \A k \in 1..Len(acc) : acc[k] # Head(rs)
    THEN Distinct(Tail(rs), Append(acc, Head(rs)))
    ELSE Distinct(Tail(rs), acc)

\* transChords.join("")
RECURSIVE Join(_)
Join(pieces) == IF pieces = <<>> THEN <<>> ELSE Head(pieces) \o Join(Tail(pieces))

\* the length of the first alternative of pats that matches s at i, 0 if none
RECURSIVE FirstMatch(_, _, _)
FirstMatch(s, i, pats) ==
    IF pats = <<>> THEN 0
    ELSE IF MatchAt(s, i, Head(pats)) THEN Len(Head(pats))
    ELSE FirstMatch(s, i, Tail(pats))

\* .replace(new RegExp(regex.join("|"), "gm"), ""); an empty regex list gives
\* the empty pattern, which matches the empty string everywhere
RECURSIVE RemovePatterns(_, _, _)
RemovePatterns(s, i, pats) ==
    IF i > Len(s) THEN <<>>
    ELSE LET n == FirstMatch(s, i, pats)
         IN  IF n > 0 THEN RemovePatterns(s, i + n, pats)
             ELSE <<s[i]>> \o RemovePatterns(s, i + 1, pats)

\* the number of "-" from position i on
RECURSIVE DashRun(_, _)
DashRun(s, i) == IF i <= Len(s) /\ s[i] = "-" THEN 1 + DashRun(s, i + 1) ELSE 0

\* .replace(/-+(\n|\r|\S)/gm, "$1"): a run of dashes before a character of the
\* group is dropped; a run of two or more before anything else (or the end)
\* matches up to its own last dash, which is kept as the group
RECURSIVE CollapseDashes(_, _)
CollapseDashes(s, i) ==
    IF i > Len(s) THEN <<>>
    ELSE LET n == DashRun(s, i)
             EndsDashRun(c) == c \in {"\n", "\r"} \/ ~IsWhitespace(c)
         IN  IF n = 0 THEN <<s[i]>> \o CollapseDashes(s, i + 1)
             ELSE IF i + n <= Len(s) /\ EndsDashRun(s[i + n])
             THEN <<s[i + n]>> \o CollapseDashes(s, i + n + 1)
             ELSE IF n >= 2
             THEN <<"-">> \o CollapseDashes(s, i + n)
             ELSE <<"-">> \o CollapseDashes(s, i + 1)

\* .replace(/\[\/ch\]\s\[ch\]/g, "[/ch]  [ch]")
RECURSIVE SpaceChordsApart(_, _)
SpaceChordsApart(s, i) ==
    IF i > Len(s) THEN <<>>
    ELSE IF /\ MatchAt(s, i, CLOSE_CH)
            /\ i + Len(CLOSE_CH) <= Len(s)
            /\ IsWhitespace(s[i + Len(CLOSE_CH)])
            /\ MatchAt(s, i + Len(CLOSE_CH) + 1, OPEN_CH)
    THEN CLOSE_CH \o <<" ", " ">> \o OPEN_CH
            \o SpaceChordsApart(s, i + Len(CLOSE_CH) + 1 + Len(OPEN_CH))
    ELSE <<s[i]>> \o SpaceChordsApart(s, i + 1)

\* .replace(/\[\/ch\]\[ch\]/g, "[/ch] [ch]")
RECURSIVE SeparateAdjacentChords(_, _)
SeparateAdjacentChords(s, i) ==
    IF i > Len(s) THEN <<>>
    ELSE IF MatchAt(s, i, CLOSE_CH \o OPEN_CH)
    THEN CLOSE_CH \o <<" ">> \o OPEN_CH
            \o SeparateAdjacentChords(s, i + Len(CLOSE_CH) + Len(OPEN_CH))
    ELSE <<s[i]>> \o SeparateAdjacentChords(s, i + 1)

\* .replace(/\[\/ch\](\w)/g, "[/ch] $1")
RECURSIVE SpaceAfterChord(_, _)
SpaceAfterChord(s, i) ==
    IF i > Len(s) THEN <<>>
    ELSE IF /\ MatchAt(s, i, CLOSE_CH)
            /\ i + Len(CLOSE_CH) <= Len(s)
            /\ s[i + Len(CLOSE_CH)] \in
                 {"A", "B", "C", "D", "E", "F", "G", "H", "I", "J", "K", "L", "M",
                  "N", "O", "P", "Q", "R", "S", "T", "U", "V", "W", "X", "Y", "Z",
                  "a", "b", "c", "d", "e", "f", "g", "h", "i", "j", "k", "l", "m",
                  "n", "o", "p", "q", "r", "s", "t", "u", "v", "w", "x", "y", "z",
                  "0", "1", "2", "3", "4", "5", "6", "7", "8", "9", "_"}
    THEN CLOSE_CH \o <<" ", s[i + Len(CLOSE_CH)]>>
            \o SpaceAfterChord(s, i + Len(CLOSE_CH) + 1)
    ELSE <<s[i]>> \o SpaceAfterChord(s, i + 1)

\* the five replace passes over the joined pieces
CleanedUp(loop) ==
    SpaceAfterChord(
      SeparateAdjacentChords(
        SpaceChordsApart(
          CollapseDashes(
            RemovePatterns(Join(loop.transChords), 1, Distinct(loop.regex, <<>>)),
            1), 1), 1), 1)

transposeSong(body, step) ==
    IF body = <<>> THEN <<>>
    ELSE CleanedUp(TransposeLoop(SplitMarkers(body, 1, <<>>, <<>>), 1, <<>>, step))

(***************************************************************************)
(* transposeSong as a state machine: the call, the loop over the chord     *)
(* pieces, the cleanup passes.  Bodies are made of up to MaxFragments      *)
(* fragments: chord tokens in their markers, text characters and a lone    *)
(* opening marker.                                                         *)
(***************************************************************************)
Wrapped(token) == OPEN_CH \o token \o CLOSE_CH

ChordTokens ==
    { <<"C">>, <<"D", "b">>, <<"C", "#">>, <<"C", "m", "i", "n">>,
      <<"C", "/", "G">>, <<"N", ".", "C", ".">>, <<>> }

Fragments ==
    { Wrapped(t) : t \in ChordTokens }
        \cup { <<" ">>, <<" ", " ">>, <<"x">>, <<"C">>, <<"-">>, <<"\n">>,
               OPEN_CH }

PageIdle ==
    /\ lines = <<>>
    /\ pageHeight = 0
    /\ margin = 0
    /\ lineHeight = 0
    /\ startY = 0
    /\ variant = "none"
    /\ pageWidth = 0
    /\ autoLinebreak = FALSE
    /\ drawn = <<>>
    /\ ppc = "idle"
    /\ sections = <<>>
    /\ sectionIndex = 0
    /\ processedLines = <<>>
    /\ currentPageLines = 0
    /\ currentPageNumber = 0

InitTranspose ==
    /\ PageIdle
    /\ SetlistIdle
    /\ ImportIdle
    /\ ServerIdle
    /\ PdfIdle
    /\ chords \in { Join(f) : f \in UNION { [1..n -> Fragments] : n \in 0..MaxFragments } }
    /\ transposeStep \in {-12, -11, -2, -1, 0, 1, 2, 11, 12}
    /\ tpc = "call"
    /\ transChords = <<>>
    /\ regex = <<>>
    /\ processedText = <<>>
    /\ failing = {}
    /\ thrown = FALSE

\* if (!chords) return ""
ReturnEmpty ==
    /\ tpc = "call"
    /\ chords = <<>>
    /\ processedText' = <<>>
    /\ tpc' = "done"
    /\ UNCHANGED <<chords, transposeStep, transChords, regex, failing, thrown>>
    /\ UNCHANGED pageVars
    /\ UNCHANGED setVars
    /\ UNCHANGED <<importVars, serverVars, pdfVars>>

\* the split, the loop over the chord pieces and the removal set
TransposePieces ==
    /\ tpc = "call"
    /\ chords # <<>>
    /\ LET loop == TransposeLoop(SplitMarkers(chords, 1, <<>>, <<>>), 1, <<>>,
                                 transposeStep)
       IN  /\ transChords' = loop.transChords
           /\ regex' = Distinct(loop.regex, <<>>)
           /\ thrown' = loop.thrown
    /\ tpc' = IF thrown' THEN "done" ELSE "cleanup"
    /\ UNCHANGED <<chords, transposeStep, processedText, failing>>
    /\ UNCHANGED pageVars
    /\ UNCHANGED setVars
    /\ UNCHANGED <<importVars, serverVars, pdfVars>>

\* the join and the five replace passes; new RegExp throws a SyntaxError on a
\* pattern it cannot compile, which a pattern free of syntax characters is not
Cleanup ==
    /\ tpc = "cleanup"
    /\ LET SyntaxChars == {"(", ")", "[", "]", "{", "}", "*", "+", "?", "\\",
                            "^", "$", ".", "|"}
           Compiles(patterns) ==
               \A n \in 1..Len(patterns) :
                   \A k \in 1..Len(patterns[n]) : patterns[n][k] \notin SyntaxChars
       IN  IF Compiles(regex)
           THEN /\ processedText' =
                     SpaceAfterChord(
                       SeparateAdjacentChords(
                         SpaceChordsApart(
                           CollapseDashes(
                             RemovePatterns(Join(transChords), 1, regex), 1), 1), 1), 1)
                /\ UNCHANGED thrown
           ELSE /\ thrown' = TRUE
                /\ UNCHANGED processedText
    /\ tpc' = "done"
    /\ UNCHANGED <<chords, transposeStep, transChords, regex, failing>>
    /\ UNCHANGED pageVars
    /\ UNCHANGED setVars
    /\ UNCHANGED <<importVars, serverVars, pdfVars>>

NextTranspose == ReturnEmpty \/ TransposePieces \/ Cleanup

SpecTranspose == InitTranspose /\ [][NextTranspose]_vars

(***************************************************************************)
(* Reading a tagged body: its pieces, its chord tokens and the columns of  *)
(* its characters once the markers are taken out.                          *)
(***************************************************************************)
Pieces(body) == SplitMarkers(body, 1, <<>>, <<>>)

\* the positions (1-based) of the chord tokens among the pieces
TokenPositions(pieces) == { k \in 1..Len(pieces) : k % 2 = 0 }

\* the markers of the body are paired: [ch] and [/ch] alternate
RECURSIVE MarkersPaired(_, _, _)
MarkersPaired(s, i, open) ==
    IF i > Len(s) THEN ~open
    ELSE IF MatchAt(s, i, OPEN_CH) THEN ~open /\ MarkersPaired(s, i + Len(OPEN_CH), TRUE)
    ELSE IF MatchAt(s, i, CLOSE_CH) THEN open /\ MarkersPaired(s, i + Len(CLOSE_CH), FALSE)
    ELSE MarkersPaired(s, i + 1, open)

AllTokensParse(pieces) ==
    \A k \in TokenPositions(pieces) : parse(pieces[k]).ok

\* the printed name of a token that parses, transposed by step
TransposedName(token, step) ==
    prettyPrint(Simplified(transpose(parse(token), step)), tones)

\* by how many characters the printed name of a token grows
Growth(token, step) ==
    Len(TransposedName(token, step)) - Len(prettyPrint(parse(token), tones))

Max0(n) == IF n < 0 THEN 0 ELSE n

RECURSIVE LeadingSpaces(_)
LeadingSpaces(s) ==
    IF s # <<>> /\ Head(s) = " " THEN 1 + LeadingSpaces(Tail(s)) ELSE 0

\* the text piece behind the token at position k, and whether the next chord
\* follows the spaces behind the token directly
TextAfter(pieces, k) ==
    IF k + 1 <= Len(pieces) THEN pieces[k + 1] ELSE <<>>
ChordFollows(pieces, k) ==
    /\ k + 2 <= Len(pieces)
    /\ LeadingSpaces(TextAfter(pieces, k)) = Len(TextAfter(pieces, k))

\* the visible characters outside the markers, line by line, each with its
\* column in the line as displayed (the markers themselves take no column)
RECURSIVE ColumnsFrom(_, _, _, _, _, _)
ColumnsFrom(s, i, inChord, col, cur, acc) ==
    IF i > Len(s) THEN Append(acc, cur)
    ELSE IF MatchAt(s, i, OPEN_CH)
    THEN ColumnsFrom(s, i + Len(OPEN_CH), TRUE, col, cur, acc)
    ELSE IF MatchAt(s, i, CLOSE_CH)
    THEN ColumnsFrom(s, i + Len(CLOSE_CH), FALSE, col, cur, acc)
    ELSE IF s[i] = "\n"
    THEN ColumnsFrom(s, i + 1, inChord, 0, <<>>, Append(acc, cur))
    ELSE IF inChord \/ IsWhitespace(s[i])
    THEN ColumnsFrom(s, i + 1, inChord, col + 1, cur, acc)
    ELSE ColumnsFrom(s, i + 1, inChord, col + 1, Append(cur, <<col, s[i]>>), acc)

TextColumns(s) == ColumnsFrom(s, 1, FALSE, 0, <<>>, <<>>)

HasDash(s) == \E i \in 1..Len(s) : s[i] = "-"

RoomAfterChords(pieces, step) ==
    \A k \in TokenPositions(pieces) :
        LET d == Max0(Growth(pieces[k], step))
            room == LeadingSpaces(TextAfter(pieces, k))
        IN  /\ room >= d + 1
            /\ ChordFollows(pieces, k) => room >= d + 2

TokensAsPrinted(pieces) ==
    \A k \in TokenPositions(pieces) :
        Len(prettyPrint(parse(pieces[k]), tones)) = Len(pieces[k])

\* the conditions of the amended claim on the body and the offset
ChordsHaveRoom ==
    /\ MarkersPaired(chords, 1, FALSE)
    /\ ~HasDash(chords)
    /\ LET pieces == Pieces(chords)
       IN  /\ AllTokensParse(pieces)
           /\ TokensAsPrinted(pieces)
           /\ RoomAfterChords(pieces, transposeStep)

C7_FailedTokenKeepsMarkers ==
    tpc = "done" =>
        \A t \in ChordTokens :
            (t # <<>> /\ ~parse(t).ok /\ MarkersPaired(chords, 1, FALSE)
                /\ Includes(chords, Wrapped(t)))
            => Includes(processedText, Wrapped(t))

(***************************************************************************)
(* C8: whatever tokens fail, the chord names of the output are the printed *)
(* transposed names of the tokens that parse, in order: the same names as  *)
(* for the body without the failing tokens.                                *)
(***************************************************************************)
\* the tokens of the body that parse, in order
RECURSIVE ParsingTokens(_, _)
ParsingTokens(pieces, k) ==
    IF k > Len(pieces) THEN <<>>
    ELSE IF pieces[k] # <<>> /\ parse(pieces[k]).ok
    THEN <<pieces[k]>> \o ParsingTokens(pieces, k + 2)
    ELSE ParsingTokens(pieces, k + 2)

\* the chord names of a transposed body: what stands between its markers
RECURSIVE TokensOf(_, _)
TokensOf(pieces, k) ==
    IF k > Len(pieces) THEN <<>> ELSE <<pieces[k]>> \o TokensOf(pieces, k + 2)

ChordNames(text) == TokensOf(Pieces(text), 2)

ExpectedNames(body, step) ==
    LET toks == ParsingTokens(Pieces(body), 2)
    IN  [n \in 1..Len(toks) |-> TransposedName(toks[n], step)]

C8_FailureIsolated ==
    tpc = "done" =>
        /\ ChordNames(processedText) = ExpectedNames(chords, transposeStep)
        /\ MarkersPaired(processedText, 1, FALSE)

\* a token that fails stands before one that parses, and that one was transposed
C8_Witness ==
    /\ tpc = "done"
    /\ transposeStep = 1
    /\ LET pieces == Pieces(chords)
       IN  \E k \in TokenPositions(pieces) :
            /\ pieces[k] # <<>>
            /\ ~parse(pieces[k]).ok
            /\ k + 2 \in TokenPositions(pieces)
            /\ parse(pieces[k + 2]).ok
    /\ Len(ChordNames(processedText)) >= 1
    /\ ChordNames(processedText) # ParsingTokens(Pieces(chords), 2)

(***************************************************************************)
(* C9: for a body without a dash the output has no dash.  A filler dash    *)
(* that ends the body, or a run of them before a space no pattern takes,   *)
(* survives the cleanup passes.                                            *)
(***************************************************************************)
C9_NoDashLeft ==
    (tpc = "done" /\ ~HasDash(chords)) => ~HasDash(processedText)

(***************************************************************************)
(* C11: when the body ends with an opening marker that has no closing      *)
(* marker, followed by text without markers, that text is plain text: it   *)
(* is not parsed or transposed and gets no markers, so the chord names of  *)
(* the output are those of the body before the unpaired marker.  The loop  *)
(* takes every second piece of the split as a chord, the last one too.     *)
(***************************************************************************)
\* the body is head, an opening marker, and a tail without markers
UnpairedAt(body, k) ==
    /\ MatchAt(body, k, OPEN_CH)
    /\ MarkersPaired(SubSeq(body, 1, k - 1), 1, FALSE)
    /\ ~Includes(SubSeq(body, k + Len(OPEN_CH), Len(body)), OPEN_CH)
    /\ ~Includes(SubSeq(body, k + Len(OPEN_CH), Len(body)), CLOSE_CH)
C11_UnpairedTailIsPlainText ==
    tpc = "done" =>
        \A k \in 1..Len(chords) :
            UnpairedAt(chords, k) =>
                ChordNames(processedText)
                    = ExpectedNames(SubSeq(chords, 1, k - 1), transposeStep)

(***************************************************************************)
(* C12: for a body whose chord tokens all parse, the chord names between   *)
(* the markers of transposeSong(body, 0) are the chord tokens of the body, *)
(* in order.  The loop prints every chord anew from its parsed value with  *)
(* the naming table, so a token spelled otherwise than the table spells it *)
(* comes back changed.                                                     *)
(***************************************************************************)
C12_NamesKeptAtZero ==
    (/\ tpc = "done"
     /\ transposeStep = 0
     /\ MarkersPaired(chords, 1, FALSE)
     /\ AllTokensParse(Pieces(chords)))
    => ChordNames(processedText) = ChordNames(chords)

(***************************************************************************)
(* C13: with a chord engine whose transpose is correct modulo 12, the      *)
(* result of transposeSong for an offset n is the result for n + 12 and    *)
(* for n - 12.                                                             *)
(***************************************************************************)
\* transposeSong applied to short bodies, for every offset of the buttons' range
InitOctave ==
    /\ PageIdle
    /\ SetlistIdle
    /\ ImportIdle
    /\ ServerIdle
    /\ PdfIdle
    /\ chords \in { Join(f) : f \in UNION { [1..n -> Fragments] :
                                              n \in 0..MaxOctaveFragments } }
    /\ transposeStep \in -12..12
    /\ tpc = "call"
    /\ transChords = <<>>
    /\ regex = <<>>
    /\ processedText = <<>>
    /\ failing = {}
    /\ thrown = FALSE
SpecOctave == InitOctave /\ [][NextTranspose]_vars

C13_OctaveGivesSameResult ==
    tpc = "done" =>
        /\ processedText = transposeSong(chords, transposeStep + 12)
        /\ processedText = transposeSong(chords, transposeStep - 12)
\* a body whose chords got other names, the same names an octave further
C13_Witness ==
    /\ tpc = "done"
    /\ transposeStep = -11
    /\ MarkersPaired(chords, 1, FALSE)
    /\ Len(ChordNames(processedText)) >= 2
    /\ \A n \in 1..Len(ChordNames(processedText)) :
           ChordNames(processedText)[n] # ChordNames(chords)[n]
    /\ processedText = transposeSong(chords, 1)
    /\ processedText = transposeSong(chords, -23)

(***************************************************************************)
(* C14: transposeSong never throws: whatever calls of the chord engine     *)
(* fail, it returns a string.  Every engine call stands in the try block   *)
(* of its chord, and the only call behind the loop that can throw, the     *)
(* RegExp constructor, gets patterns of dashes and spaces.                 *)
(***************************************************************************)
\* transposeSong applied to short bodies with any set of failing engine calls
InitThrow ==
    /\ PageIdle
    /\ SetlistIdle
    /\ ImportIdle
    /\ ServerIdle
    /\ PdfIdle
    /\ chords \in { Join(f) : f \in UNION { [1..n -> Fragments] :
                                              n \in 0..MaxOctaveFragments } }
    /\ transposeStep \in {-1, 1}
    /\ tpc = "call"
    /\ transChords = <<>>
    /\ regex = <<>>
    /\ processedText = <<>>
    /\ failing \in SUBSET ({1, 3} \X EngineCalls)
    /\ thrown = FALSE
SpecThrow == InitThrow /\ [][NextTranspose]_vars

C14_NeverThrows ==
    /\ ~thrown
    /\ tpc = "done" =>
           \A k \in 1..Len(processedText) : Len(processedText[k]) = 1
\* one chord's parse and the next chord's print failed, the string came back
\* with both chords as typed
C14_Witness ==
    /\ tpc = "done"
    /\ ~thrown
    /\ failing = {<<1, "parse">>, <<3, "prettyPrint">>}
    /\ Len(Pieces(chords)) >= 4
    /\ parse(Pieces(chords)[2]).ok
    /\ parse(Pieces(chords)[4]).ok
    /\ processedText = Join(Pieces(chords))

(***************************************************************************)
(* Pasted-text import: the chord token grammar, the chord line classifier, *)
(* chordifyLine, parsePastedSong and songToEditableTabText.                *)
(***************************************************************************)
UpperLetters ==
    <<"A", "B", "C", "D", "E", "F", "G", "H", "I", "J", "K", "L", "M",
      "N", "O", "P", "Q", "R", "S", "T", "U", "V", "W", "X", "Y", "Z">>
LowerLetters ==
    <<"a", "b", "c", "d", "e", "f", "g", "h", "i", "j", "k", "l", "m",
      "n", "o", "p", "q", "r", "s", "t", "u", "v", "w", "x", "y", "z">>

IsLetter(c) == \E k \in 1..26 : c = UpperLetters[k] \/ c = LowerLetters[k]
IsDigit(c) == c \in {"0", "1", "2", "3", "4", "5", "6", "7", "8", "9"}

\* the letter folded to lower case, for the /i patterns
ToLower(c) ==
    IF \E k \in 1..26 : c = UpperLetters[k]
    THEN LowerLetters[CHOOSE k \in 1..26 : c = UpperLetters[k]]
    ELSE c

\* whether the lower-case word w occurs in s at position i, ignoring case
MatchWordAt(s, i, w) ==
    /\ i >= 1
    /\ i + Len(w) - 1 <= Len(s)
    /\ \A k \in 1..Len(w) : ToLower(s[i + k - 1]) = w[k]

\* chordTokenPattern.test(s).  Each part of the pattern maps the set of
\* positions a match may have reached to the set it may reach behind that part,
\* so that every way of matching the parts before it is kept
chordTokenPattern(s) ==
    LET IsNote(c) == ToLower(c) \in {"a", "b", "c", "d", "e", "f", "g"}
        IsAccidental(c) == ToLower(c) \in {"#", "b"}
        \* one character of the class at each position of P that holds one
        Behind(P, InClass(_)) ==
            { i + 1 : i \in { j \in P : j <= Len(s) /\ InClass(s[j]) } }
        \* [A-G]
        root == IF Len(s) >= 1 /\ IsNote(s[1]) THEN {2} ELSE {}
        \* (?:#|b)?
        AfterAccidental(P) == P \cup Behind(P, IsAccidental)
        \* (?:maj|min|m|dim|aug|sus|add|M)?
        QualityWords ==
            { <<"m", "a", "j">>, <<"m", "i", "n">>, <<"m">>, <<"d", "i", "m">>,
              <<"a", "u", "g">>, <<"s", "u", "s">>, <<"a", "d", "d">> }
        AfterQuality(P) ==
            P \cup UNION { { i + Len(w) : w \in { v \in QualityWords : MatchWordAt(s, i, v) } }
                           : i \in P }
        \* \d{1,2}
        AfterDigits(P) == Behind(P, IsDigit) \cup Behind(Behind(P, IsDigit), IsDigit)
        \* (?:\d{0,2})?
        AfterExtension(P) == P \cup AfterDigits(P)
        \* (?:[#b]\d{1,2})*
        RECURSIVE AfterAlterations(_)
        AfterAlterations(P) ==
            IF AfterDigits(Behind(P, IsAccidental)) \subseteq P THEN P
            ELSE AfterAlterations(P \cup AfterDigits(Behind(P, IsAccidental)))
        \* [^)\s]+ from position i
        RECURSIVE ParenBody(_)
        ParenBody(i) ==
            IF i <= Len(s) /\ s[i] # ")" /\ ~IsWhitespace(s[i])
            THEN {i + 1} \cup ParenBody(i + 1)
            ELSE {}
        IsOpen(c) == c = "("
        IsClose(c) == c = ")"
        IsSlash(c) == c = "/"
        \* (?:\([^)\s]+\))?
        AfterParen(P) ==
            P \cup Behind(UNION { ParenBody(i) : i \in Behind(P, IsOpen) }, IsClose)
        \* (?:\/[A-G](?:#|b)?)?
        AfterBass(P) == P \cup AfterAccidental(Behind(Behind(P, IsSlash), IsNote))
    IN  \/ (Len(s) = 4 /\ MatchWordAt(s, 1, <<"n", ".", "c", ".">>))
        \/ (Len(s) + 1) \in
             AfterBass(AfterParen(AfterAlterations(
                AfterExtension(AfterQuality(AfterAccidental(root))))))

isChordToken(token) ==
    LET \* the first replace: leading brackets and quotes removed (the grave
        \* accent of the source's class cannot be written in a string here; no
        \* text of the model holds one)
        RECURSIVE StripLeading(_)
        StripLeading(t) ==
            IF t # <<>> /\ Head(t) \in {"(", "[", "{", "'", "\""}
            THEN StripLeading(Tail(t)) ELSE t
        \* the second replace: trailing brackets, quotes and punctuation removed
        RECURSIVE StripTrailing(_)
        StripTrailing(t) ==
            IF t # <<>>
               /\ t[Len(t)] \in {")", "]", "}", "'", "\"", ".", ",", ":", ";", "!", "?"}
            THEN StripTrailing(SubSeq(t, 1, Len(t) - 1)) ELSE t
        Cleaned(t) == t # <<>> /\ chordTokenPattern(t)
    IN  Cleaned(StripTrailing(StripLeading(token)))

\* the maximal runs of white space and of other characters of s, in order
RECURSIVE RunsFrom(_, _, _, _)
RunsFrom(s, i, cur, acc) ==
    IF i > Len(s) THEN (IF cur = <<>> THEN acc ELSE Append(acc, cur))
    ELSE IF cur = <<>> \/ IsWhitespace(s[i]) = IsWhitespace(cur[1])
    THEN RunsFrom(s, i + 1, Append(cur, s[i]), acc)
    ELSE RunsFrom(s, i + 1, <<s[i]>>, Append(acc, cur))

Runs(s) == RunsFrom(s, 1, <<>>, <<>>)

\* trimmed.split(/\s+/).filter(Boolean)
Tokens(s) == SelectSeq(Runs(s), LAMBDA r : ~IsWhitespace(r[1]))

\* /^[|\\/-]+$/.test(token)
IsBarFiller(token) ==
    token # <<>> /\ \A k \in 1..Len(token) : token[k] \in {"|", "\\", "/", "-"}

\* the return of isLikelyChordLine over the tokens that are no bar fillers:
\* chordTokenCount > 0 && lyricTokenCount === 0
ChordsAndNoLyrics(counted) ==
    /\ \E k \in 1..Len(counted) : isChordToken(counted[k])
    /\ \A k \in 1..Len(counted) :
           \/ isChordToken(counted[k])
           \/ ~\E c \in 1..Len(counted[k]) : IsLetter(counted[k][c])

\* mutant: a line in square brackets is not set aside
LikelyChordLineTrimmed_NoHeaderCheck(trimmed) ==
    /\ trimmed # <<>>
    /\ ChordsAndNoLyrics(SelectSeq(Tokens(trimmed), LAMBDA t : ~IsBarFiller(t)))

\* isLikelyChordLine from its local `trimmed` on
LikelyChordLineTrimmed(trimmed) ==
    /\ trimmed # <<>>
    /\ ~(StartsWith(trimmed, <<"[">>) /\ EndsWith(trimmed, <<"]">>))
    /\ ChordsAndNoLyrics(SelectSeq(Tokens(trimmed), LAMBDA t : ~IsBarFiller(t)))

isLikelyChordLine(line) == LikelyChordLineTrimmed(Trim(line))

\* mutant: the markers go around the whole segment, its bars included
ChordifySegment_BarsInside(segment) ==
    LET IsBarChar(c) == c \in {"|", "\\", "/"}
        RECURSIVE StripBars(_)
        StripBars(t) ==
            IF t # <<>> /\ IsBarChar(Head(t)) THEN StripBars(Tail(t))
            ELSE IF t # <<>> /\ IsBarChar(t[Len(t)])
            THEN StripBars(SubSeq(t, 1, Len(t) - 1))
            ELSE t
    IN  IF segment = <<>> \/ IsWhitespace(segment[1]) THEN segment
        ELSE IF StripBars(segment) = <<>> \/ ~isChordToken(StripBars(segment))
        THEN segment
        ELSE OPEN_CH \o segment \o CLOSE_CH

\* the callback of chordifyLine's map, for one segment: prefix and suffix are
\* the longest runs of | \ / at its ends
ChordifySegment(segment) ==
    LET IsBarChar(c) == c \in {"|", "\\", "/"}
        RECURSIVE LeadingBars(_)
        LeadingBars(t) ==
            IF t # <<>> /\ IsBarChar(Head(t)) THEN 1 + LeadingBars(Tail(t)) ELSE 0
        RECURSIVE TrailingBars(_)
        TrailingBars(t) ==
            IF t # <<>> /\ IsBarChar(t[Len(t)])
            THEN 1 + TrailingBars(SubSeq(t, 1, Len(t) - 1)) ELSE 0
        Wrap(p, q) ==
            IF p + q >= Len(segment) \/ ~isChordToken(SubSeq(segment, p + 1, Len(segment) - q))
            THEN segment
            ELSE SubSeq(segment, 1, p) \o OPEN_CH
                    \o SubSeq(segment, p + 1, Len(segment) - q) \o CLOSE_CH
                    \o SubSeq(segment, Len(segment) - q + 1, Len(segment))
    IN  IF segment = <<>> \/ IsWhitespace(segment[1]) THEN segment
        ELSE IF LeadingBars(segment) = Len(segment) THEN segment
        ELSE Wrap(LeadingBars(segment), TrailingBars(segment))

\* .map(segment => ...).join("") over the segments of the split
chordifyLine(line) ==
    LET ChordifySegments(segs) == Join([k \in 1..Len(segs) |-> ChordifySegment(segs[k])])
    IN  ChordifySegments(Runs(line))

\* s.split("\n")
RECURSIVE SplitLinesFrom(_, _, _, _)
SplitLinesFrom(s, i, cur, acc) ==
    IF i > Len(s) THEN Append(acc, cur)
    ELSE IF s[i] = "\n" THEN SplitLinesFrom(s, i + 1, <<>>, Append(acc, cur))
    ELSE SplitLinesFrom(s, i + 1, Append(cur, s[i]), acc)

\* ls.join("\n")
RECURSIVE JoinLines(_)
JoinLines(ls) ==
    IF ls = <<>> THEN <<>>
    ELSE IF Len(ls) = 1 THEN ls[1]
    ELSE ls[1] \o <<"\n">> \o JoinLines(Tail(ls))

\* .replace(/\r\n/g, "\n")
RECURSIVE NormalizeNewlines(_, _)
NormalizeNewlines(s, i) ==
    IF i > Len(s) THEN <<>>
    ELSE IF MatchAt(s, i, <<"\r", "\n">>) THEN <<"\n">> \o NormalizeNewlines(s, i + 2)
    ELSE <<s[i]>> \o NormalizeNewlines(s, i + 1)

\* the position of the first character at or behind i that is no white space
RECURSIVE SkipWhitespace(_, _)
SkipWhitespace(s, i) ==
    IF i <= Len(s) /\ IsWhitespace(s[i]) THEN SkipWhitespace(s, i + 1) ELSE i

\* the while loop over the leading metadata lines of parsePastedSong;
\* MetadataLine is its body for the trimmed line and the line's match.
\* MetadataMatch is line.match(metadataLinePattern) for a trimmed line, as
\* [ok, key, value]; MetadataAssigned is the four assignments of the loop body
\* for a matching line
RECURSIVE MetadataLoop(_, _, _)
RECURSIVE MetadataLine(_, _, _, _, _)
MetadataLine(ls, bodyStartIndex, meta, line, m) ==
    LET
        MetadataAssigned ==
            [meta EXCEPT
                !.song = IF m.key = <<"t", "i", "t", "l", "e">> /\ @ = <<>> THEN m.value ELSE @,
                !.artist = IF m.key = <<"a", "r", "t", "i", "s", "t">> /\ @ = <<>>
                           THEN m.value ELSE @,
                !.key = IF m.key = <<"k", "e", "y">> /\ @ = <<>> THEN m.value ELSE @,
                !.capo = IF m.key = <<"c", "a", "p", "o">> /\ @ = <<>> THEN m.value ELSE @]
    IN
    IF line = <<>> THEN MetadataLoop(ls, bodyStartIndex + 1, meta)
    ELSE IF ~m.ok THEN [meta EXCEPT !.bodyStartIndex = bodyStartIndex]
    ELSE MetadataLoop(ls, bodyStartIndex + 1, MetadataAssigned)

MetadataLoop(ls, bodyStartIndex, meta) ==
    LET
        MetadataMatch(line) ==
            LET keys == { w \in { <<"t", "i", "t", "l", "e">>, <<"a", "r", "t", "i", "s", "t">>,
                                   <<"k", "e", "y">>, <<"c", "a", "p", "o">> }
                              : MatchWordAt(line, 1, w) }
                key == CHOOSE w \in keys : TRUE
                colon == SkipWhitespace(line, Len(key) + 1)
                value == SkipWhitespace(line, colon + 1)
            IN  IF /\ keys # {}
                   /\ colon <= Len(line)
                   /\ line[colon] = ":"
                   /\ value <= Len(line)
                   /\ \A k \in value..Len(line) : line[k] # "\r"
                THEN [ok |-> TRUE, key |-> key, value |-> Trim(SubSeq(line, value, Len(line)))]
                ELSE [ok |-> FALSE, key |-> <<>>, value |-> <<>>]
    IN
    IF bodyStartIndex > Len(ls) THEN [meta EXCEPT !.bodyStartIndex = bodyStartIndex]
    ELSE MetadataLine(ls, bodyStartIndex, meta, Trim(ls[bodyStartIndex]),
                      MetadataMatch(Trim(ls[bodyStartIndex])))

\* the value that stands for a thrown Error
ParseFailure == [ok |-> FALSE, artist |-> <<>>, song |-> <<>>, chords |-> <<>>]

\* the end of parsePastedSong, from its local `chords` on
ParsedSong(meta, body) ==
    IF body = <<>> THEN ParseFailure
    ELSE [ok |-> TRUE,
          artist |-> IF meta.artist # <<>> THEN meta.artist ELSE
              <<"U", "n", "k", "n", "o", "w", "n", " ", "A", "r", "t", "i", "s", "t">>,
          song |-> IF meta.song # <<>> THEN meta.song ELSE
              <<"U", "n", "t", "i", "t", "l", "e", "d", " ", "S", "o", "n", "g">>,
          chords |-> body]

\* parsePastedSong from its local `bodyLines` on: ProcessedBodyLines is
\* bodyLines.map(line => isLikelyChordLine(line) ? chordifyLine(line) : line),
\* PrefixedLines the Key and Capo lines put in front of the body, with their
\* blank line
ParsedBody(meta, bodyLines) ==
    LET
        ProcessedBodyLines ==
            [k \in 1..Len(bodyLines) |->
                IF isLikelyChordLine(bodyLines[k]) THEN chordifyLine(bodyLines[k])
                ELSE bodyLines[k]]
        PrefixedLines ==
            (IF meta.key # <<>> THEN <<<<"K", "e", "y", ":", " ">> \o meta.key>> ELSE <<>>)
            \o (IF meta.capo # <<>> THEN <<<<"C", "a", "p", "o", ":", " ">> \o meta.capo>>
                ELSE <<>>)
            \o (IF meta.key # <<>> \/ meta.capo # <<>> THEN <<<<>>>> ELSE <<>>)
    IN
    IF Len(bodyLines) = 0 THEN ParseFailure
    ELSE ParsedSong(meta,
                    Trim(JoinLines(PrefixedLines \o ProcessedBodyLines)))

\* parsePastedSong behind the metadata loop
ParsedAfterMetadata(ls, meta) == ParsedBody(meta, SubSeq(ls, meta.bodyStartIndex, Len(ls)))

\* parsePastedSong from its local `lines` on
ParsedLines(ls) ==
    ParsedAfterMetadata(ls,
        MetadataLoop(ls, 1, [song |-> <<>>, artist |-> <<>>, key |-> <<>>,
                             capo |-> <<>>, bodyStartIndex |-> 1]))

\* parsePastedSong(rawText): ParseFailure where it throws
parsePastedSong(rawText) ==
    IF Trim(NormalizeNewlines(rawText, 1)) = <<>> THEN ParseFailure
    ELSE ParsedLines(SplitLinesFrom(Trim(NormalizeNewlines(rawText, 1)), 1, <<>>, <<>>))

\* the body: .replace(/\[tab\]|\[\/tab\]/g, "").replace(/\[\/?ch\]/g, "").trim()
songToEditableTabText(song) ==
    Trim(<<"T", "i", "t", "l", "e", ":", " ">> \o song.song \o <<"\n">>
         \o <<"A", "r", "t", "i", "s", "t", ":", " ">> \o song.artist
         \o <<"\n", "\n">>
         \o Trim(RemovePatterns(
                    RemovePatterns(song.transposedChords, 1,
                                   << <<"[", "t", "a", "b", "]">>,
                                      <<"[", "/", "t", "a", "b", "]">> >>),
                    1, <<CLOSE_CH, OPEN_CH>>)))

(***************************************************************************)
(* The chord line functions applied to lines of pasted text: the tokens    *)
(* the lines are made of, the lines, and one step for each function.       *)
(***************************************************************************)
ImportTokens ==
    { <<"C">>, <<"A", "m">>, <<"C", "/", "G">>, <<"N", ".", "C", ".">>,
      <<"n", ".", "c", ".">>, <<"|", "C", "|">>, <<"/", "C">>, <<"(", "C", ")">>,
      <<"[", "C", "]">>, <<"|">>, <<"-">>, <<"1">>, <<"x">>, <<"é">>, OPEN_CH }

\* a call on a line of up to MaxTokens tokens: white space may lead and trail, and one or
\* two blanks stand between two tokens
InitImport ==
    /\ PageIdle
    /\ TransIdle
    /\ SetlistIdle
    /\ ServerIdle
    /\ PdfIdle
    /\ importLine \in
           LET RECURSIVE TokenRuns(_)
               TokenRuns(n) ==
                   IF n = 0 THEN { <<>> }
                   ELSE IF n = 1 THEN ImportTokens
                   ELSE { l \o sep \o t : l \in TokenRuns(n - 1),
                                           sep \in { <<" ">>, <<" ", " ">> },
                                           t \in ImportTokens }
           IN  { lead \o run \o trail :
                   lead \in { <<>>, <<" ">> },
                   run \in UNION { TokenRuns(n) : n \in 0..MaxTokens },
                   trail \in { <<>>, <<" ">> } }
    /\ ipc = "classify"
    /\ tokenTests = <<>>
    /\ likelyChordLine = FALSE
    /\ chordified = <<>>

\* isLikelyChordLine(line), with the isChordToken tests of the tokens
ClassifyLine ==
    /\ ipc = "classify"
    /\ tokenTests' = [k \in 1..Len(Tokens(Trim(importLine))) |->
                          isChordToken(Tokens(Trim(importLine))[k])]
    /\ likelyChordLine' = isLikelyChordLine(importLine)
    /\ ipc' = "chordify"
    /\ UNCHANGED <<importLine, chordified>>
    /\ UNCHANGED <<pageVars, transVars, setVars, serverVars, pdfVars>>

\* chordifyLine(line)
ChordifyLine ==
    /\ ipc = "chordify"
    /\ chordified' = chordifyLine(importLine)
    /\ ipc' = "done"
    /\ UNCHANGED <<importLine, tokenTests, likelyChordLine>>
    /\ UNCHANGED <<pageVars, transVars, setVars, serverVars, pdfVars>>

SpecImport == InitImport /\ [][ClassifyLine \/ ChordifyLine]_vars

(***************************************************************************)
(* C15: isChordToken accepts the literal N.C., in any letter case.  The    *)
(* second replace of isChordToken strips the final dot before the pattern  *)
(* is tested, and the pattern wants that dot.                              *)
(***************************************************************************)
C15_NoChordAccepted ==
    ipc # "classify" =>
        \A k \in 1..Len(tokenTests) :
            MatchWordAt(Tokens(Trim(importLine))[k], 1, <<"n", ".", "c", ".">>)
                /\ Len(Tokens(Trim(importLine))[k]) = 4
            => tokenTests[k]

(***************************************************************************)
(* C16 as stated: isLikelyChordLine(line) is true exactly when the trimmed *)
(* line is not empty, is not of the form [...], has a token that passes    *)
(* isChordToken, and has no token that holds a letter and fails            *)
(* isChordToken.                                                           *)
(***************************************************************************)
\* the right-hand side of the claim, for a given notion of letter
ClaimedChordLine(trimmed, Letter(_)) ==
    /\ trimmed # <<>>
    /\ ~(trimmed[1] = "[" /\ trimmed[Len(trimmed)] = "]")
    /\ \E k \in 1..Len(Tokens(trimmed)) : isChordToken(Tokens(trimmed)[k])
    /\ \A k \in 1..Len(Tokens(trimmed)) :
           ~(/\ \E c \in 1..Len(Tokens(trimmed)[k]) : Letter(Tokens(trimmed)[k][c])
             /\ ~isChordToken(Tokens(trimmed)[k]))
\* a letter of any alphabet, as far as the lines of the model hold one
AnyLetter(c) == IsLetter(c) \/ c = "é"
C16_Original_ChordLineIff ==
    ipc # "classify" =>
        (likelyChordLine <=> ClaimedChordLine(Trim(importLine), AnyLetter))
(***************************************************************************)
(* C16 amended: the same with the letters taken as the code takes them,    *)
(* A to Z and a to z: a token of other letters only does not count as a    *)
(* lyric.                                                                  *)
(***************************************************************************)
C16_ChordLineIffAsciiLetters ==
    ipc # "classify" =>
        (likelyChordLine <=> ClaimedChordLine(Trim(importLine), IsLetter))
\* a chord line with a bar filler and a chord between bars left out of count
C16_Witness ==
    /\ ipc = "done"
    /\ likelyChordLine
    /\ Len(tokenTests) = 2
    /\ \E k \in 1..2 : IsBarFiller(Tokens(Trim(importLine))[k])
    /\ \E k \in 1..2 : tokenTests[k]
    /\ importLine # Trim(importLine)

(***************************************************************************)
(* C17 as stated: for every line, taking every marker out of               *)
(* chordifyLine(line) gives the line back, and every marker pair encloses  *)
(* the core of a token, a core that passes isChordToken, the bars and      *)
(* slashes at the ends of the token staying outside.                       *)
(***************************************************************************)
RECURSIVE StripMarkers(_, _)
StripMarkers(s, i) ==
    IF i > Len(s) THEN <<>>
    ELSE IF MatchAt(s, i, OPEN_CH) THEN StripMarkers(s, i + Len(OPEN_CH))
    ELSE IF MatchAt(s, i, CLOSE_CH) THEN StripMarkers(s, i + Len(CLOSE_CH))
    ELSE <<s[i]>> \o StripMarkers(s, i + 1)
\* text holds only bars and slashes from the core up to the next white space
\* (towardEnd) or back to the last white space
BarsUpToSpace(text, towardEnd) ==
    LET Bar(c) == c \in {"|", "\\", "/"}
        idx == { k \in 1..Len(text) : ~Bar(text[k]) }
    IN  \/ idx = {}
        \/ IF towardEnd
           THEN IsWhitespace(text[CHOOSE k \in idx : \A j \in idx : k <= j])
           ELSE IsWhitespace(text[CHOOSE k \in idx : \A j \in idx : k >= j])
PairsEncloseCores(out) ==
    /\ MarkersPaired(out, 1, FALSE)
    /\ \A k \in TokenPositions(Pieces(out)) :
           /\ Pieces(out)[k] # <<>>
           /\ isChordToken(Pieces(out)[k])
           /\ Head(Pieces(out)[k]) \notin {"|", "\\", "/"}
           /\ Pieces(out)[k][Len(Pieces(out)[k])] \notin {"|", "\\", "/"}
           /\ \A c \in 1..Len(Pieces(out)[k]) : ~IsWhitespace(Pieces(out)[k][c])
           /\ BarsUpToSpace(Pieces(out)[k - 1], FALSE)
           /\ BarsUpToSpace(Pieces(out)[k + 1], TRUE)
OnlyMarkerPairsInserted ==
    /\ StripMarkers(chordified, 1) = importLine
    /\ PairsEncloseCores(chordified)
C17_Original_OnlyPairsInserted ==
    ipc = "done" => OnlyMarkerPairsInserted
(***************************************************************************)
(* C17 amended: the same for every line that holds no marker itself.       *)
(***************************************************************************)
C17_OnlyPairsInsertedInPlainLine ==
    (/\ ipc = "done"
     /\ ~Includes(importLine, OPEN_CH)
     /\ ~Includes(importLine, CLOSE_CH))
    => OnlyMarkerPairsInserted
\* a chord between bars was wrapped, the bars and two blanks stayed outside
C17_Witness ==
    /\ ipc = "done"
    /\ Includes(importLine, <<"|", "C", "|", " ", " ">>)
    /\ Includes(chordified, <<"|">> \o Wrapped(<<"C">>) \o <<"|", " ", " ">>)
    /\ Len(ChordNames(chordified)) = 2
    /\ OnlyMarkerPairsInserted

(***************************************************************************)
(* The setlist of the ChordTransposer component: the user's handlers and   *)
(* the two effects that rewrite `songs`.                                   *)
(***************************************************************************)
\* songs.map(s => s.chords + s.transposeStep).join(","); NumStr is String(n)
\* for the offsets a song can hold
RECURSIVE transposeDeps(_)
transposeDeps(ss) ==
    IF ss = <<>> THEN <<>>
    ELSE LET digit(d) == <<"0", "1", "2", "3", "4", "5", "6", "7", "8", "9">>[d + 1]
             digits(m) == IF m < 10 THEN <<digit(m)>>
                          ELSE <<digit(m \div 10), digit(m % 10)>>
             NumStr(n) == IF n < 0 THEN <<"-">> \o digits(-n) ELSE digits(n)
             first == ss[1].chords \o NumStr(ss[1].transposeStep)
         IN  IF Len(ss) = 1 THEN first
             ELSE first \o <<",">> \o transposeDeps(Tail(ss))

\* draftParse.song: null (ok = FALSE) for a blank text and where the parser throws
draftParse(text) ==
    IF Trim(text) = <<>> THEN ParseFailure ELSE parsePastedSong(text)

\* the dependency arrays of the two effects for a state of the component; the
\* memoised parsedPastedSong is a new object for every text that parses, and
\* null otherwise
EffectDeps(ss, editing, text) ==
    [transpose |-> transposeDeps(ss),
     editing |-> <<editing, IF draftParse(text).ok THEN <<text>> ELSE <<>>>>]

\* the effects a commit schedules: those whose dependencies changed
ScheduledEffects(old, new) ==
    (IF old.editing # new.editing THEN {"editing"} ELSE {})
    \cup (IF old.transpose # new.transpose THEN {"transpose"} ELSE {})

Quiescent == pendingEffects = {}

\* the render that follows a handler, deps being its effect dependencies
Rendered(ss, editing, text, deps) ==
    /\ songs' = ss
    /\ editingSongId' = editing
    /\ pastedTabText' = text
    /\ renderedDeps' = deps
    /\ pendingEffects' = ScheduledEffects(renderedDeps, deps)
    /\ userEvents' = userEvents + 1
    /\ UNCHANGED <<pageVars, transVars>>
    /\ UNCHANGED <<importVars, serverVars, pdfVars>>

CommitAfterHandler(ss, editing, text) ==
    Rendered(ss, editing, text, EffectDeps(ss, editing, text))

\* the render that follows the last effect of a commit
RenderedAfterEffects(deps) ==
    /\ renderedDeps' = deps
    /\ pendingEffects' = ScheduledEffects(renderedDeps, deps)

\* an effect has run: the next render follows the last effect of the commit
CommitAfterEffect(ss, effect) ==
    /\ songs' = ss
    /\ IF pendingEffects \ {effect} = {}
       THEN RenderedAfterEffects(EffectDeps(ss, editingSongId, pastedTabText))
       ELSE /\ renderedDeps' = renderedDeps
            /\ pendingEffects' = pendingEffects \ {effect}
    /\ UNCHANGED <<editingSongId, pastedTabText, nextId, userEvents>>
    /\ UNCHANGED <<pageVars, transVars>>
    /\ UNCHANGED <<importVars, serverVars, pdfVars>>

UserMayAct == Quiescent /\ userEvents < MaxEvents

NewSong(id, artist, song, body) ==
    [id |-> id, artist |-> artist, song |-> song, chords |-> body,
     transposedChords |-> body, transposeStep |-> 0]

\* the updater shared by the editing effect and the confirm branch
ApplyParsed(ss, editing, parsed) ==
    [k \in 1..Len(ss) |->
        IF ss[k].id = editing
        THEN [ss[k] EXCEPT !.artist = parsed.artist,
                           !.song = parsed.song,
                           !.chords = parsed.chords,
                           !.transposedChords = parsed.chords]
        ELSE ss[k]]

ArtistName == <<"A">>
SongName == <<"T">>

\* the bodies a fetched page or a published tab holds
FetchedBodies == { Wrapped(<<"C">>), Wrapped(<<"C">>) \o <<" ", "x">> }

\* a setlist the user has built before: empty, or one fetched song stepped to an
\* offset, its effects run
InitSongs ==
    { <<>> } \cup
    { <<[NewSong(1, ArtistName, SongName, b)
            EXCEPT !.transposeStep = st, !.transposedChords = transposeSong(b, st)]>>
      : b \in FetchedBodies, st \in {-12, 0, 2, 12} }

InitSetlist ==
    /\ PageIdle
    /\ TransIdle
    /\ ImportIdle
    /\ ServerIdle
    /\ PdfIdle
    /\ songs \in InitSongs
    /\ editingSongId = 0
    /\ pastedTabText = <<>>
    /\ renderedDeps = EffectDeps(songs, 0, <<>>)
    /\ pendingEffects = {}
    /\ nextId = Len(songs) + 1
    /\ userEvents = 0

\* addSong, from the point where the page has been fetched
AddSong ==
    \E body \in FetchedBodies :
        /\ UserMayAct
        /\ Len(songs) < MaxSongs
        /\ nextId' = nextId + 1
        /\ CommitAfterHandler(
               Append(songs, NewSong(nextId, ArtistName, SongName, body)),
               editingSongId, pastedTabText)

\* onChange of the editor's textarea; the texts the user puts into it: cleared,
\* a chord line, a lyric line, or the present text with a line break at its end
SetPastedTabText ==
    \E text \in { <<>>, <<"G">>, <<"x">>, pastedTabText \o <<"\n">> } :
        /\ UserMayAct
        /\ text # pastedTabText
        /\ nextId' = nextId
        /\ CommitAfterHandler(songs, editingSongId, text)

\* addOrConfirmPastedSong behind its two early returns
ConfirmOrAdd(parsedPastedSong) ==
    /\ parsedPastedSong.ok
    /\ IF editingSongId # 0
       THEN /\ nextId' = nextId
            /\ CommitAfterHandler(
                   ApplyParsed(songs, editingSongId, parsedPastedSong), 0, <<>>)
       ELSE /\ Len(songs) < MaxSongs
            /\ nextId' = nextId + 1
            /\ CommitAfterHandler(
                   Append(songs, NewSong(nextId, parsedPastedSong.artist,
                                         parsedPastedSong.song,
                                         parsedPastedSong.chords)),
                   editingSongId, <<>>)

AddOrConfirmPastedSong ==
    /\ UserMayAct
    /\ Trim(pastedTabText) # <<>>
    /\ ConfirmOrAdd(draftParse(pastedTabText))

\* the published tabs offered for import are lists of songs
AddPublicTabToSetlist ==
    \E publicTab \in { <<[artist |-> ArtistName, song |-> SongName,
                          transposedChords |-> Wrapped(<<"D">>)]>> } :
        /\ UserMayAct
        /\ Len(songs) + Len(publicTab) <= MaxSongs
        /\ nextId' = nextId + Len(publicTab)
        /\ CommitAfterHandler(
               songs \o [index \in 1..Len(publicTab) |->
                            NewSong(nextId + index - 1, publicTab[index].artist,
                                    publicTab[index].song,
                                    publicTab[index].transposedChords)],
               editingSongId, pastedTabText)

StartEditingSong ==
    \E i \in 1..Len(songs) :
        /\ UserMayAct
        /\ nextId' = nextId
        /\ CommitAfterHandler(songs, songs[i].id, songToEditableTabText(songs[i]))

CancelEditingSong ==
    /\ UserMayAct
    /\ editingSongId # 0
    /\ nextId' = nextId
    /\ CommitAfterHandler(songs, 0, <<>>)

RemoveSong ==
    \E i \in 1..Len(songs) :
        /\ UserMayAct
        /\ nextId' = nextId
        /\ LET id == songs[i].id
               kept == SelectSeq(songs, LAMBDA sg : sg.id # id)
           IN  IF editingSongId = id
               THEN CommitAfterHandler(kept, 0, <<>>)
               ELSE CommitAfterHandler(kept, editingSongId, pastedTabText)

Swapped(ss, a, b) ==
    [k \in 1..Len(ss) |-> IF k = a THEN ss[b] ELSE IF k = b THEN ss[a] ELSE ss[k]]

MoveSongUp ==
    \E i \in 2..Len(songs) :
        /\ UserMayAct
        /\ nextId' = nextId
        /\ CommitAfterHandler(Swapped(songs, i - 1, i), editingSongId, pastedTabText)

MoveSongDown ==
    \E i \in 1..(Len(songs) - 1) :
        /\ UserMayAct
        /\ nextId' = nextId
        /\ CommitAfterHandler(Swapped(songs, i, i + 1), editingSongId, pastedTabText)

updateTranspose(ss, id, step) ==
    [k \in 1..Len(ss) |->
        IF ss[k].id = id THEN [ss[k] EXCEPT !.transposeStep = step] ELSE ss[k]]

Min(a, b) == IF a < b THEN a ELSE b
Max(a, b) == IF a > b THEN a ELSE b

\* the "-" button of a song, disabled at -12
TransposeDown ==
    \E i \in 1..Len(songs) :
        /\ UserMayAct
        /\ ~(songs[i].transposeStep <= -12)
        /\ nextId' = nextId
        /\ CommitAfterHandler(
               updateTranspose(songs, songs[i].id, Max(songs[i].transposeStep - 1, -12)),
               editingSongId, pastedTabText)

\* the "+" button of a song, disabled at 12
TransposeUp ==
    \E i \in 1..Len(songs) :
        /\ UserMayAct
        /\ ~(songs[i].transposeStep >= 12)
        /\ nextId' = nextId
        /\ CommitAfterHandler(
               updateTranspose(songs, songs[i].id, Min(songs[i].transposeStep + 1, 12)),
               editingSongId, pastedTabText)

\* useEffect(..., [editingSongId, parsedPastedSong])
EditingEffect ==
    LET
        EditedSongs(ss, editing, parsedPastedSong) ==
            IF editing = 0 \/ ~parsedPastedSong.ok THEN ss
            ELSE ApplyParsed(ss, editing, parsedPastedSong)
    IN
    /\ "editing" \in pendingEffects
    /\ CommitAfterEffect(EditedSongs(songs, editingSongId, draftParse(pastedTabText)),
                         "editing")

\* useEffect(..., [transposeDeps, simplify, halftoneStyle]); it is declared
\* behind the editing effect and runs behind it in a commit that schedules both
TransposeEffect ==
    LET
        Retransposed(ss) ==
            [k \in 1..Len(ss) |->
                [ss[k] EXCEPT !.transposedChords = transposeSong(ss[k].chords, ss[k].transposeStep)]]
    IN
    /\ "transpose" \in pendingEffects
    /\ "editing" \notin pendingEffects
    /\ CommitAfterEffect(Retransposed(songs), "transpose")

NextSetlist ==
    \/ AddSong
    \/ SetPastedTabText
    \/ AddOrConfirmPastedSong
    \/ AddPublicTabToSetlist
    \/ StartEditingSong
    \/ CancelEditingSong
    \/ RemoveSong
    \/ MoveSongUp
    \/ MoveSongDown
    \/ TransposeDown
    \/ TransposeUp
    \/ EditingEffect
    \/ TransposeEffect

SpecSetlist == InitSetlist /\ [][NextSetlist]_vars

\* C10: in every quiescent state every song's transposedChords is
\* transposeSong(chords, transposeStep)
C10_ShownBodyDerived ==
    Quiescent =>
        \A k \in 1..Len(songs) :
            songs[k].transposedChords =
                transposeSong(songs[k].chords, songs[k].transposeStep)

(***************************************************************************)
(* The public tabs API (pages/api/public-tabs): the POST and the DELETE    *)
(* branch of the handler over the stored tabs.  A number of a payload is   *)
(* held in halves, so that Math.round has something to round; MaxTabs      *)
(* stands for MAX_TABS, and a POST takes one event of the budget.          *)
(***************************************************************************)
DELETE_PASSWORD == Trim(env)

\* mutant: the offset of a song is stored as sent, rounded but not clamped
sanitizeSongs_Unclamped(rawSongs) ==
    IF ~rawSongs.isArray THEN <<>>
    ELSE SelectSeq(
           [k \in 1..Len(rawSongs.items) |->
               [transposeStep |->
                    IF rawSongs.items[k].transposeStep.kind = "number"
                    THEN FloorDiv(rawSongs.items[k].transposeStep.halves + 1, 2)
                    ELSE 0,
                transposedChords |-> Trim(rawSongs.items[k].transposedChords)]],
           LAMBDA song : Len(song.transposedChords) > 0)

\* sanitizeSongs: Math.round is the floor of the number plus a half; a value
\* that is no finite number gives 0; a song without tab content is dropped
sanitizeSongs(rawSongs) ==
    IF ~rawSongs.isArray THEN <<>>
    ELSE SelectSeq(
           [k \in 1..Len(rawSongs.items) |->
               [transposeStep |->
                    IF rawSongs.items[k].transposeStep.kind = "number"
                    THEN Max(-12, Min(12,
                           FloorDiv(rawSongs.items[k].transposeStep.halves + 1, 2)))
                    ELSE 0,
                transposedChords |-> Trim(rawSongs.items[k].transposedChords)]],
           LAMBDA song : Len(song.transposedChords) > 0)

\* the songs arrays of the payloads: what the page sends for its setlist ss
\* (the whole setlist, or one song of it), and what any other client may send
PayloadSongs(ss) ==
    LET Sent(song) ==
            [transposeStep |-> [kind |-> "number", halves |-> 2 * song.transposeStep],
             transposedChords |-> song.transposedChords]
        Foreign(kind, halves, text) ==
            [isArray |-> TRUE,
             items |-> <<[transposeStep |-> [kind |-> kind, halves |-> halves],
                          transposedChords |-> text]>>]
    IN  { [isArray |-> TRUE, items |-> [k \in 1..Len(ss) |-> Sent(ss[k])]],
          [isArray |-> FALSE, items |-> <<>>] }
        \cup { [isArray |-> TRUE, items |-> <<Sent(ss[k])>>] : k \in 1..Len(ss) }
        \cup { Foreign("number", h, Wrapped(<<"C">>)) : h \in {-2000, -1, 3, 25} }
        \cup { Foreign(kind, 0, Wrapped(<<"C">>)) : kind \in {"NaN", "string"} }
        \cup { Foreign("number", 40, <<" ">>) }

\* the id of a new entry: Date.now() with a random suffix, here the time on the
\* clock of events, which every request that is posted advances
NewTabId == userEvents + 1

\* POST: sanitize, 400 without a song, else insert in front and cut to MaxTabs;
\* a write that fails gives 500
PostPublicTab ==
    \E rawSongs \in PayloadSongs(songs), written \in BOOLEAN :
        /\ userEvents < MaxEvents
        /\ userEvents' = userEvents + 1
        /\ request' = [method |-> "POST"]
        /\ IF Len(sanitizeSongs(rawSongs)) = 0
           THEN status' = 400 /\ UNCHANGED tabs
           ELSE IF ~written
           THEN status' = 500 /\ UNCHANGED tabs
           ELSE /\ tabs' = SubSeq(<<[id |-> NewTabId, songs |-> sanitizeSongs(rawSongs)]>>
                                     \o tabs, 1,
                                  Min(MaxTabs, Len(tabs) + 1))
                /\ status' = 201
        /\ UNCHANGED <<env, inserts>>
        /\ UNCHANGED <<songs, editingSongId, pastedTabText, renderedDeps, pendingEffects, nextId>>
        /\ UNCHANGED <<pageVars, transVars, importVars, pdfVars>>

\* DELETE: 400 without an id, 401 when a password is configured and the one
\* sent differs, 404 for an unknown id, 500 when the store fails, else 200
DeletePublicTab ==
    \E id \in 0..MaxEvents,
       password \in { [given |-> FALSE, text |-> <<>>] }
                      \cup { [given |-> TRUE, text |-> t] :
                               t \in { <<>>, <<"p", "w">>, <<"p", "w", " ">>, <<"x">> } },
       stored \in BOOLEAN :
        /\ request' = [method |-> "DELETE", id |-> id, password |-> password]
        /\ IF id = 0
           THEN status' = 400 /\ UNCHANGED tabs
           ELSE IF DELETE_PASSWORD # <<>>
                   /\ (IF password.given THEN Trim(password.text) ELSE <<>>)
                          # DELETE_PASSWORD
           THEN status' = 401 /\ UNCHANGED tabs
           ELSE IF ~stored
           THEN status' = 500 /\ UNCHANGED tabs
           ELSE IF \A k \in 1..Len(tabs) : tabs[k].id # id
           THEN status' = 404 /\ UNCHANGED tabs
           ELSE /\ tabs' = SelectSeq(tabs, LAMBDA tab : tab.id # id)
                /\ status' = 200
        /\ UNCHANGED <<env, inserts>>
        /\ UNCHANGED <<pageVars, transVars, setVars, importVars, pdfVars>>

\* a server with any configuration of the delete password and an empty store
InitServer ==
    /\ PageIdle
    /\ TransIdle
    /\ SetlistIdle
    /\ ImportIdle
    /\ PdfIdle
    /\ env \in { <<>>, <<" ">>, <<"p", "w">>, <<" ", "p", "w">> }
    /\ tabs = <<>>
    /\ request = [method |-> "none"]
    /\ status = 0
    /\ inserts = <<>>

SpecServer == InitServer /\ [][PostPublicTab \/ DeletePublicTab]_vars

(***************************************************************************)
(* C18: whatever the configuration, a DELETE request for a stored tab      *)
(* whose password is missing or differs from the configured                *)
(* TABS_DELETE_PASSWORD removes no tab and is answered with 401.  With no  *)
(* password configured the check of the password is skipped and the tab    *)
(* is deleted.                                                             *)
(***************************************************************************)
C18_BadPasswordDeletesNothing ==
    [][(/\ request'.method = "DELETE"
        /\ \E k \in 1..Len(tabs) : tabs[k].id = request'.id
        /\ (~request'.password.given \/ request'.password.text # env))
       => (tabs' = tabs /\ status' = 401)]_vars

(***************************************************************************)
(* The PDF preview: the effect that calls updatePDF whenever previewSongs, *)
(* the font size, the line break option or the export settings change,     *)
(* and the generatePDF calls it leaves in flight.                          *)
(***************************************************************************)
\* the page is mounted with an empty setlist: the effect has set pdfUrl to null
InitPdf ==
    /\ PageIdle
    /\ TransIdle
    /\ SetlistIdle
    /\ ImportIdle
    /\ ServerIdle
    /\ PdfIdle

\* a dependency of the effect changes and the effect runs updatePDF up to its
\* await: null for an empty preview, else a generatePDF call is started
ChangePreview ==
    \E empty \in BOOLEAN :
        /\ previewVersion < MaxPreviews
        /\ previewVersion' = previewVersion + 1
        /\ previewEmpty' = empty
        /\ IF empty
           THEN pdfUrl' = 0 /\ UNCHANGED inFlight
           ELSE inFlight' = inFlight \cup {previewVersion + 1} /\ UNCHANGED pdfUrl
        /\ UNCHANGED <<fonts, onLine>>
        /\ UNCHANGED <<pageVars, transVars, setVars, importVars, serverVars>>

\* a generatePDF call resolves: setPdfUrl(dataUrl)
GenerationResolves ==
    \E v \in inFlight :
        /\ pdfUrl' = v
        /\ inFlight' = inFlight \ {v}
        /\ UNCHANGED <<previewVersion, previewEmpty, fonts, onLine>>
        /\ UNCHANGED <<pageVars, transVars, setVars, importVars, serverVars>>

\* a generatePDF call rejects: the catch block sets the error, not pdfUrl
GenerationRejects ==
    \E v \in inFlight :
        /\ inFlight' = inFlight \ {v}
        /\ UNCHANGED <<previewVersion, previewEmpty, pdfUrl, fonts, onLine>>
        /\ UNCHANGED <<pageVars, transVars, setVars, importVars, serverVars>>

SpecPdf == InitPdf /\ [][ChangePreview \/ GenerationResolves \/ GenerationRejects]_vars

(***************************************************************************)
(* C19: once every generation in flight has settled, a pdfUrl that is set  *)
(* holds the result of the generation started last, and pdfUrl is null     *)
(* when the previewed setlist is empty.  updatePDF sets pdfUrl whenever    *)
(* its call resolves, whatever has been started or cleared since.          *)
(***************************************************************************)
C19_LastGenerationShown ==
    inFlight = {} =>
        /\ previewEmpty => pdfUrl = 0
        /\ pdfUrl # 0 => pdfUrl = previewVersion

(***************************************************************************)
(* The setlist together with the API: the handlers and effects of the page *)
(* and POST requests, those of the page for its setlist and any other.     *)
(***************************************************************************)
\* the page with a setlist built before and an empty store, PublishEvents
\* events before the budget of events is used up
InitPublish ==
    /\ PageIdle
    /\ TransIdle
    /\ ImportIdle
    /\ ServerIdle
    /\ PdfIdle
    /\ songs \in InitSongs
    /\ editingSongId = 0
    /\ pastedTabText = <<>>
    /\ renderedDeps = EffectDeps(songs, 0, <<>>)
    /\ pendingEffects = {}
    /\ nextId = Len(songs) + 1
    /\ userEvents = MaxEvents - PublishEvents

SpecPublish == InitPublish /\ [][NextSetlist \/ PostPublicTab]_vars

(***************************************************************************)
(* C20: in every reachable state every song of the setlist has an integer  *)
(* transposeStep from -12 to 12, and so has every song of every stored     *)
(* tab.                                                                    *)
(***************************************************************************)
C20_StepsWithinOctave ==
    /\ \A k \in 1..Len(songs) : songs[k].transposeStep \in -12..12
    /\ \A t \in 1..Len(tabs) :
           \A k \in 1..Len(tabs[t].songs) :
               tabs[t].songs[k].transposeStep \in -12..12
\* a song was stepped down from 12 and published, and then a payload with an
\* offset below the range was stored with -12
C20_Witness ==
    /\ \E k \in 1..Len(songs) : songs[k].transposeStep = 11
    /\ Len(tabs) = 2
    /\ status = 201
    /\ tabs[1].songs[1].transposeStep = -12
    /\ tabs[2].songs[1].transposeStep = 11

(***************************************************************************)
(* C21: before the cleanup passes every chord that was transposed stands   *)
(* in the pieces as [ch]new[/ch] followed by lengthDelta dashes when       *)
(* lengthDelta >= 0 and by -lengthDelta spaces otherwise, lengthDelta      *)
(* being the length of the new printed name minus the length of the token  *)
(* as it stands in the body.  The loop measures the new name against the   *)
(* printed name of the parsed token, which can be shorter than the token.  *)
(***************************************************************************)
C21_FillerByTokenLength ==
    (tpc = "cleanup" /\ failing = {}) =>
        \A k \in TokenPositions(Pieces(chords)) :
            (Pieces(chords)[k] # <<>> /\ parse(Pieces(chords)[k]).ok) =>
                LET new == TransposedName(Pieces(chords)[k], transposeStep)
                    lengthDelta == Len(new) - Len(Pieces(chords)[k])
                IN  transChords[k] =
                        Wrapped(new) \o (IF lengthDelta >= 0
                                         THEN Repeat("-", lengthDelta)
                                         ELSE Repeat(" ", -lengthDelta))

(***************************************************************************)
(* C22: transposeSong neither joins nor splits lines: the result holds as  *)
(* many line breaks as the body.  The pass that puts two spaces between    *)
(* two chords matches any white space between the markers, a line break    *)
(* included.                                                               *)
(***************************************************************************)
NewlineCount(s) == Cardinality({ i \in 1..Len(s) : s[i] = "\n" })

C22_LinesKept ==
    (tpc = "done" /\ ~thrown) => NewlineCount(processedText) = NewlineCount(chords)

(***************************************************************************)
(* C23: when no chord changes its printed length, so that the set of       *)
(* removal patterns is empty, every dash of the plain text of the body     *)
(* stands in the result, in the same line at the same column.  The pass    *)
(* that collapses runs of dashes runs whatever the set holds, and takes    *)
(* every dash that stands before a character that is no white space.       *)
(***************************************************************************)
\* the dashes among the visible characters: (line, column) of each
DashesOf(columns) ==
    UNION { { <<n, columns[n][k][1]>> :
                k \in { j \in 1..Len(columns[n]) : columns[n][j][2] = "-" } }
            : n \in 1..Len(columns) }

C23_DashesKept ==
    (/\ tpc = "done"
     /\ ~thrown
     /\ regex = <<>>
     /\ MarkersPaired(chords, 1, FALSE)
     /\ AllTokensParse(Pieces(chords))
     /\ TokensAsPrinted(Pieces(chords))
     /\ \A k \in TokenPositions(Pieces(chords)) :
            Growth(Pieces(chords)[k], transposeStep) = 0)
    => DashesOf(TextColumns(chords)) \subseteq DashesOf(TextColumns(processedText))

(***************************************************************************)
(* C24: with at least one line on every page and on the first page, after  *)
(* each section the planner's page number and line count are the page and  *)
(* the row where the next line lands when the lines emitted so far are     *)
(* laid out one per row, on a first page of firstPageAvailableLines rows   *)
(* and later pages of maxLinesPerPage rows, a sentinel starting a new      *)
(* page; the line count stays below the capacity of the page.              *)
(***************************************************************************)
\* where the next line lands after out[i..] is laid out from (page, row)
RECURSIVE LandingFrom(_, _, _, _)
LandingFrom(out, i, page, row) ==
    IF i > Len(out)
    THEN IF row >= PageCapacity(page) THEN <<page + 1, 0>> ELSE <<page, row>>
    ELSE IF IsSentinel(out[i]) THEN LandingFrom(out, i + 1, page + 1, 0)
    ELSE IF row >= PageCapacity(page) THEN LandingFrom(out, i + 1, page + 1, 1)
    ELSE LandingFrom(out, i + 1, page, row + 1)

C24_CountersFollowLayout ==
    (ppc \in {"place", "done"} /\ maxLinesPerPage >= 1 /\ firstPageAvailableLines >= 1)
    => /\ <<currentPageNumber, currentPageLines>> = LandingFrom(processedLines, 1, 1, 0)
       /\ currentPageLines >= 0
       /\ currentPageLines < PageCapacity(currentPageNumber)
\* a section longer than a page was placed across pages, and a sentinel was
\* emitted before another
C24_Witness ==
    /\ ppc = "done"
    /\ firstPageAvailableLines >= 1
    /\ \E k \in 1..Len(sections) : Len(sections[k]) > maxLinesPerPage
    /\ \E i \in 1..Len(processedLines) : IsSentinel(processedLines[i])
    /\ currentPageNumber >= 4

(***************************************************************************)
(* C25: with auto-linebreak on and no line that wraps, the renderer draws  *)
(* every body line on the page the planner's capacities give it: it holds  *)
(* firstPageAvailableLines lines on the first page and maxLinesPerPage on  *)
(* later pages.  The renderer fits floor((pageHeight - margin - startY) /  *)
(* lineHeight) lines on the first page, which can be one more than         *)
(* floor(usableHeight / lineHeight) - ceil((startY - margin) / lineHeight).*)
(***************************************************************************)
\* no line was continued on a further row
NoLineWrapped ==
    \A a \in 1..Len(drawn) : \A b \in 1..Len(drawn) :
        drawn[a].line = drawn[b].line => drawn[a].y = drawn[b].y

\* the index among the body lines of line i of out
BodyIndex(out, i) == Cardinality({ j \in 1..i : ~IsSentinel(out[j]) })

C25_DrawnOnPlannedPage ==
    (ppc = "drawn" /\ autoLinebreak /\ NoLineWrapped) =>
        \A a \in 1..Len(drawn) :
            drawn[a].page =
                BodyPages(processedLines)[BodyIndex(processedLines, drawn[a].line)]

(***************************************************************************)
(* C26: the renderer draws no character at a y with y + lineHeight beyond  *)
(* pageHeight - margin, whatever the length of a line.  A line that wraps  *)
(* moves the cursor down a row without the check for the bottom margin.    *)
(***************************************************************************)
C26_NothingBelowBottomMargin ==
    ppc = "drawn" =>
        \A a \in 1..Len(drawn) : drawn[a].y + lineHeight <= pageHeight - margin

(***************************************************************************)
(* Editing without typing: a setlist of fetched songs at any offsets, and  *)
(* the handlers that start, cancel and confirm an edit, with the effects   *)
(* they set off.  Nothing is typed and no offset is changed.               *)
(***************************************************************************)
\* a setlist built before: up to MaxSongs fetched songs, each stepped to an
\* offset, the effects run
InitEditing ==
    /\ PageIdle
    /\ TransIdle
    /\ ImportIdle
    /\ ServerIdle
    /\ PdfIdle
    /\ songs \in UNION {
           { [k \in 1..n |->
                [NewSong(k, ArtistName, SongName, b[k])
                    EXCEPT !.transposeStep = st[k],
                           !.transposedChords = transposeSong(b[k], st[k])]]
             : b \in [1..n -> FetchedBodies], st \in [1..n -> {-12, -1, 0, 2, 12}] }
           : n \in 1..MaxSongs }
    /\ editingSongId = 0
    /\ pastedTabText = <<>>
    /\ renderedDeps = EffectDeps(songs, 0, <<>>)
    /\ pendingEffects = {}
    /\ nextId = Len(songs) + 1
    /\ userEvents = 0

SpecEditing ==
    InitEditing /\ [][StartEditingSong \/ CancelEditingSong \/ AddOrConfirmPastedSong
                        \/ EditingEffect \/ TransposeEffect]_vars

(***************************************************************************)
(* C27: editing is a no-op when nothing is typed.  Once an edit was        *)
(* cancelled, or confirmed with the text as it was, and the effects have   *)
(* run, a song whose chords stand on lines of chords only shows the chord  *)
(* names it showed before.  Every song of SpecEditing is a fetched body    *)
(* with the one chord C, shown transposed by the song's transposeStep,     *)
(* which no step of the specification changes.  The edit replaces the      *)
(* stored body by the transposed one, and the transpose effect transposes  *)
(* that once more.                                                         *)
(***************************************************************************)
\* outside its chords the body holds white space only
RECURSIVE OnlyChordsAndSpace(_, _, _)
OnlyChordsAndSpace(s, i, inChord) ==
    IF i > Len(s) THEN TRUE
    ELSE IF MatchAt(s, i, OPEN_CH) THEN OnlyChordsAndSpace(s, i + Len(OPEN_CH), TRUE)
    ELSE IF MatchAt(s, i, CLOSE_CH) THEN OnlyChordsAndSpace(s, i + Len(CLOSE_CH), FALSE)
    ELSE (inChord \/ IsWhitespace(s[i])) /\ OnlyChordsAndSpace(s, i + 1, inChord)

C27_EditingKeepsShownNames ==
    (editingSongId = 0 /\ pendingEffects = {}) =>
        \A k \in 1..Len(songs) :
            OnlyChordsAndSpace(songs[k].transposedChords, 1, FALSE) =>
                ChordNames(songs[k].transposedChords)
                    = <<TransposedName(<<"C">>, songs[k].transposeStep)>>

(***************************************************************************)
(* The file store under concurrent requests: a POST handler awaits the     *)
(* read of the file (readDb) and later the write (writeDb), and the        *)
(* handlers of other requests run in between.  Each request in flight      *)
(* holds its new entry, its position and the list it has read.             *)
(***************************************************************************)
\* the handler up to its first await on the store: 400 without a song, else the
\* new entry is made and insertTabIntoFile starts reading
ReceivePost ==
    \E rawSongs \in PayloadSongs(<<>>) :
        /\ Len(inserts) < MaxInserts
        /\ userEvents' = userEvents + 1
        /\ request' = [method |-> "POST"]
        /\ IF Len(sanitizeSongs(rawSongs)) = 0
           THEN /\ inserts' = Append(inserts, [pc |-> "done", status |-> 400,
                                               entry |-> [id |-> NewTabId, songs |-> <<>>],
                                               db |-> <<>>])
                /\ status' = 400
           ELSE /\ inserts' = Append(inserts,
                                     [pc |-> "readDb", status |-> 0,
                                      entry |-> [id |-> NewTabId,
                                                 songs |-> sanitizeSongs(rawSongs)],
                                      db |-> <<>>])
                /\ UNCHANGED status
        /\ UNCHANGED <<env, tabs>>
        /\ UNCHANGED <<songs, editingSongId, pastedTabText, renderedDeps, pendingEffects, nextId>>
        /\ UNCHANGED <<pageVars, transVars, importVars, pdfVars>>

\* readDb resolves for one request: it holds the list the file has now
ReadDb ==
    \E k \in 1..Len(inserts) :
        /\ inserts[k].pc = "readDb"
        /\ inserts' = [inserts EXCEPT ![k].pc = "writeDb", ![k].db = tabs]
        /\ UNCHANGED <<env, tabs, request, status>>
        /\ UNCHANGED <<pageVars, transVars, setVars, importVars, pdfVars>>

\* writeDb settles for one request: the file becomes the new entry in front of
\* the list that was read, cut to MaxTabs, and the answer is 201; a write that
\* fails is answered with 500
WriteDb ==
    \E k \in 1..Len(inserts), written \in BOOLEAN :
        /\ inserts[k].pc = "writeDb"
        /\ IF written
           THEN /\ tabs' = SubSeq(<<inserts[k].entry>> \o inserts[k].db, 1,
                                  Min(MaxTabs, Len(inserts[k].db) + 1))
                /\ inserts' = [inserts EXCEPT ![k].pc = "done", ![k].status = 201]
                /\ status' = 201
           ELSE /\ inserts' = [inserts EXCEPT ![k].pc = "done", ![k].status = 500]
                /\ status' = 500
                /\ UNCHANGED tabs
        /\ UNCHANGED <<env, request>>
        /\ UNCHANGED <<pageVars, transVars, setVars, importVars, pdfVars>>

\* a server on the file store, the file empty, no request in flight
InitStore ==
    /\ PageIdle
    /\ TransIdle
    /\ SetlistIdle
    /\ ImportIdle
    /\ PdfIdle
    /\ ServerIdle

SpecStore == InitStore /\ [][ReceivePost \/ ReadDb \/ WriteDb]_vars

(***************************************************************************)
(* C28: with the file store in use, when two POST requests are handled     *)
(* concurrently and both are answered with 201, the entries of both are in *)
(* the stored list afterwards, as long as the entries answered with 201    *)
(* do not exceed the room of the list (MaxTabs).                           *)
(***************************************************************************)
C28_BothEntriesStored ==
    \A a, b \in 1..Len(inserts) :
        (/\ a # b
         /\ inserts[a].status = 201
         /\ inserts[b].status = 201
         /\ Cardinality({ k \in 1..Len(inserts) : inserts[k].status = 201 }) <= MaxTabs)
            => \A h \in {a, b} : \E t \in 1..Len(tabs) : tabs[t].id = inserts[h].entry.id

(***************************************************************************)
(* addParagraphBreaks on any text: the lines are lines of a tab as the     *)
(* user pasted or fetched it, so a line may itself read __PAGE_BREAK__.    *)
(***************************************************************************)
InitSentinelLines ==
    /\ TransIdle
    /\ SetlistIdle
    /\ ImportIdle
    /\ ServerIdle
    /\ PdfIdle
    /\ lines \in UNION { [1..n -> { <<"[", "V", "]">>,
                                    <<" ">>,
                                    <<"[", "c", "h", "]", "C", "[", "/", "c", "h", "]">>,
                                    PAGE_BREAK }]
                       : n \in 0..MaxDrawnLines }
    /\ pageHeight \in {9, 10}
    /\ margin = 1
    /\ lineHeight = 2
    /\ startY \in {1, 2, 4, 7}
    /\ variant \in {"pdf", "docx", "pdfLegacy"}
    /\ pageWidth = 12
    /\ autoLinebreak = TRUE
    /\ drawn = <<>>
    /\ ppc = "segment"
    /\ sections = <<>>
    /\ sectionIndex = 1
    /\ processedLines = <<>>
    /\ currentPageLines = 0
    /\ currentPageNumber = 1

SpecSentinelLines ==
    InitSentinelLines /\ [][Segment \/ PlaceSection \/ ReturnLines]_vars

\* every sentinel of out stands behind a line that is no sentinel and in front
\* of the first line of one of the sections secs
SentinelsBetweenSections(out, secs) ==
    \A i \in 1..Len(out) :
        IsSentinel(out[i]) =>
            /\ i > 1
            /\ i < Len(out)
            /\ ~IsSentinel(out[i - 1])
            /\ ~IsSentinel(out[i + 1])
            /\ \E k \in 2..Len(secs) :
                /\ Len(secs[k]) > 0
                /\ out[i + 1] = secs[k][1]
                /\ Len(RemoveSentinels(SubSeq(out, 1, i))) = LinesBefore(secs, k)

(***************************************************************************)
(* C29 as stated: for every input, the output of addParagraphBreaks never  *)
(* starts with a sentinel, never ends with a sentinel and never holds two  *)
(* sentinels in a row: each sentinel is directly preceded by a body line   *)
(* and directly followed by the first line of a non-empty section.         *)
(***************************************************************************)
C29_Original_SentinelsBetweenSections ==
    ppc = "done" => SentinelsBetweenSections(processedLines, sections)

(***************************************************************************)
(* C29 amended: the same for every input none of whose lines is itself the *)
(* text of the sentinel (such a line is passed through like any body line, *)
(* wherever it stands).                                                    *)
(***************************************************************************)
C29_SentinelsBetweenSections ==
    (ppc = "done" /\ \A n \in 1..Len(lines) : ~IsSentinel(lines[n])) =>
        SentinelsBetweenSections(processedLines, sections)

\* a call on lines without the sentinel text has returned lines with a sentinel
C29_Witness ==
    /\ ppc = "done"
    /\ \A n \in 1..Len(lines) : ~IsSentinel(lines[n])
    /\ \E i \in 1..Len(processedLines) : IsSentinel(processedLines[i])
    /\ variant = "docx"

(***************************************************************************)
(* Font loading: loadFonts starts fetchFont for the regular and the bold   *)
(* font at once.  A call holds the retries left, the attempts made, where  *)
(* its current attempt stands (awaiting fetch, awaiting arrayBuffer, or    *)
(* settled) and the error caught last.  The timer of an attempt runs until *)
(* fetch has resolved (clearTimeout), not while the body is read.          *)
(***************************************************************************)
DefaultRetries == 2

\* the catch block: a new attempt with one retry less, or the error is thrown
CatchBlock(call, error) ==
    IF call.retries > 0 /\ (error = "AbortError" \/ ~onLine)
    THEN [pc |-> "fetch", retries |-> call.retries - 1,
          attempts |-> call.attempts + 1, error |-> error]
    ELSE [call EXCEPT !.pc = "rejected", !.error = error]

\* the timer of the attempt fires: controller.abort() rejects the fetch
TimeoutAborts ==
    \E url \in DOMAIN fonts :
        /\ fonts[url].pc = "fetch"
        /\ fonts' = [fonts EXCEPT ![url] = CatchBlock(@, "AbortError")]
        /\ UNCHANGED <<previewVersion, previewEmpty, inFlight, pdfUrl, onLine>>
        /\ UNCHANGED <<pageVars, transVars, setVars, importVars, serverVars>>

\* fetch settles before the timer: a response (ok or not) or a network error
FetchSettles ==
    \E url \in DOMAIN fonts, outcome \in {"ok", "HTTP", "TypeError"} :
        /\ fonts[url].pc = "fetch"
        /\ fonts' = [fonts EXCEPT ![url] =
                        IF outcome = "ok" THEN [@ EXCEPT !.pc = "arrayBuffer"]
                        ELSE CatchBlock(@, outcome)]
        /\ UNCHANGED <<previewVersion, previewEmpty, inFlight, pdfUrl, onLine>>
        /\ UNCHANGED <<pageVars, transVars, setVars, importVars, serverVars>>

\* response.arrayBuffer() settles: the data, or a network error
BodySettles ==
    \E url \in DOMAIN fonts, outcome \in {"ok", "TypeError"} :
        /\ fonts[url].pc = "arrayBuffer"
        /\ fonts' = [fonts EXCEPT ![url] =
                        IF outcome = "ok" THEN [@ EXCEPT !.pc = "resolved"]
                        ELSE CatchBlock(@, outcome)]
        /\ UNCHANGED <<previewVersion, previewEmpty, inFlight, pdfUrl, onLine>>
        /\ UNCHANGED <<pageVars, transVars, setVars, importVars, serverVars>>

\* the browser goes offline or comes back
ConnectivityChanges ==
    /\ onLine' = ~onLine
    /\ UNCHANGED <<previewVersion, previewEmpty, inFlight, pdfUrl, fonts>>
    /\ UNCHANGED <<pageVars, transVars, setVars, importVars, serverVars>>

\* loadFonts has called fetchFont(url) for both fonts: first attempts under way
InitFonts ==
    /\ PageIdle
    /\ TransIdle
    /\ SetlistIdle
    /\ ImportIdle
    /\ ServerIdle
    /\ previewVersion = 0
    /\ previewEmpty = TRUE
    /\ inFlight = {}
    /\ pdfUrl = 0
    /\ fonts = [url \in {"regular", "bold"} |->
                   [pc |-> "fetch", retries |-> DefaultRetries, attempts |-> 1,
                    error |-> "none"]]
    /\ onLine \in BOOLEAN

\* the calls with their environment; the timer of every attempt that is set
\* and not cleared fires in the end (setTimeout)
SpecFonts ==
    /\ InitFonts
    /\ [][TimeoutAborts \/ FetchSettles \/ BodySettles \/ ConnectivityChanges]_vars
    /\ \A url \in {"regular", "bold"} :
          WF_vars(TimeoutAborts /\ fonts'[url] # fonts[url])

\* a call makes at most 1 + DefaultRetries attempts
C30_AtMostThreeAttempts ==
    \A url \in DOMAIN fonts : fonts[url].attempts <= 1 + DefaultRetries

\* a new attempt follows an abort by the timer or a failure while offline, and
\* an HTTP error status while online rejects the call
C30_RetryOnlyAfterAbortOrOffline ==
    [][\A url \in DOMAIN fonts :
        /\ fonts'[url].attempts > fonts[url].attempts
              => (fonts'[url].error = "AbortError" \/ ~onLine)
        /\ (/\ fonts[url].pc = "fetch"
            /\ fonts'[url] # fonts[url]
            /\ fonts'[url].pc # "arrayBuffer"
            /\ fonts'[url].error = "HTTP"
            /\ onLine)
              => fonts'[url].pc = "rejected"]_vars

\* every call settles
C30_EveryCallSettles ==
    <>(\A url \in DOMAIN fonts : fonts[url].pc \in {"resolved", "rejected"})

(***************************************************************************)
(* C30: fetchFont with its defaults always settles and makes at most 3     *)
(* network attempts per URL; a new attempt is made only after an attempt   *)
(* was aborted by the timeout or failed while the browser is offline, and  *)
(* an HTTP error status received while online fails at once without retry. *)
(* The timer is cleared when the response headers are in, so nothing ends  *)
(* a read of the body that stalls.                                         *)
(***************************************************************************)
C30_SettlesWithinThreeAttempts ==
    /\ []C30_AtMostThreeAttempts
    /\ C30_RetryOnlyAfterAbortOrOffline
    /\ C30_EveryCallSettles

====
